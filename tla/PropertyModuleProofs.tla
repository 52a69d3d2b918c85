-------------------------- MODULE PropertyModuleProofs --------------------------
(***************************************************************************)
(* What is proved of NFPropertyModule, NFAutoBroadcastModule and the       *)
(* record under them, for any causes, values, levels and clients: types,   *)
(* the sums, HP within MAXHP, and what clients show.                       *)
(*                                                                         *)
(* A call is a chain of callbacks.  Sound says all that is right about a   *)
(* player between two calls; for each operator of the chain a lemma says   *)
(* what it needs and what it leaves.  Sums over a record and the columns   *)
(* of a level's row are folds over finite sets, which are shown to be      *)
(* there and to keep what each step keeps by taking one element at a time. *)
(***************************************************************************)
EXTENDS PropertyModule, FiniteSetTheorems, NaturalsInduction, WellFoundedInduction, TLAPS

-------------------------------------------------------------------------------
(* Folding over a finite set. *)

\* The element a fold takes from a set, and what is left.
Pick(s) == CHOOSE x \in s : TRUE
Rest(s) == s \ {Pick(s)}

\* Induction, for a set of numbers.
LEMMA AllNumbers ==
    ASSUME NEW D \in SUBSET Nat, 0 \in D, \A n \in D : n + 1 \in D
    PROVE  \A n \in Nat : n \in D
<1> SUFFICES ASSUME \E n \in Nat : n \notin D PROVE FALSE
    OBVIOUS
<1>1. PICK rest : rest = Nat \ D
    OBVIOUS
<1>2. rest \subseteq Nat /\ rest # {}
    BY <1>1
<1>3. \A m, n \in Nat : <<m, n>> \in OpToRel(<, Nat) <=> m < n
    BY DEF OpToRel
<1>4. \E n \in rest : \A m \in rest : ~(<<m, n>> \in OpToRel(<, Nat))
    BY <1>2, NatLessThanWellFounded, WFMin
<1>5. PICK n \in rest : \A m \in rest : ~(m < n)
    BY <1>2, <1>3, <1>4
<1>6. n \in Nat /\ n # 0 /\ n \notin D
    BY <1>1
<1>7. n - 1 \in Nat /\ n - 1 < n /\ (n - 1) + 1 = n
    BY <1>6
<1>8. n - 1 \in D
    BY <1>1, <1>5, <1>7
<1> QED BY <1>6, <1>7, <1>8

\* Taking one away from a finite set.
LEMMA PickTakesOne ==
    ASSUME NEW S, IsFiniteSet(S), NEW s \in SUBSET S, s # {}
    PROVE  /\ Pick(s) \in S /\ Rest(s) \in SUBSET S
           /\ Cardinality(s) \in Nat /\ Cardinality(Rest(s)) \in Nat
           /\ Cardinality(s) = Cardinality(Rest(s)) + 1
<1>1. Pick(s) \in s
    BY DEF Pick
<1>2. IsFiniteSet(s)
    BY FS_Subset
<1>3. Cardinality(s) \in Nat /\ Cardinality(Rest(s)) = Cardinality(s) - 1 /\ IsFiniteSet(Rest(s))
    BY <1>1, <1>2, FS_RemoveElement, FS_CardinalityType DEF Rest
<1>4. Cardinality(Rest(s)) \in Nat
    BY <1>3, FS_CardinalityType
<1> QED BY <1>1, <1>3, <1>4 DEF Rest

\* Induction over the sets of a finite set, an element at a time.
LEMMA AllSubsets ==
    ASSUME NEW S, IsFiniteSet(S), NEW P, {} \in P,
           \A s \in SUBSET S : s # {} /\ Rest(s) \in P => s \in P
    PROVE  \A s \in SUBSET S : s \in P
<1>1. PICK D \in SUBSET Nat :
          D = {n \in Nat : \A s \in SUBSET S : Cardinality(s) <= n => s \in P}
    OBVIOUS
<1>2. \A s \in SUBSET S : Cardinality(s) \in Nat /\ (s # {} => Cardinality(s) # 0)
    BY FS_Subset, FS_CardinalityType, FS_EmptySet
<1>3. 0 \in D
    <2>1. ASSUME NEW s \in SUBSET S, Cardinality(s) <= 0 PROVE s \in P
        <3>1. s = {}
            BY <1>2, <2>1
        <3> QED BY <3>1
    <2> QED BY <1>1, <2>1
<1>4. ASSUME NEW n \in D PROVE n + 1 \in D
    <2> SUFFICES ASSUME NEW s \in SUBSET S, Cardinality(s) <= n + 1 PROVE s \in P
        BY <1>1
    <2>1. CASE s = {}
        BY <2>1
    <2>2. CASE s # {}
        <3>1. Rest(s) \in SUBSET S /\ Cardinality(Rest(s)) <= n
            BY <1>1, <2>2, PickTakesOne
        <3>2. Rest(s) \in P
            BY <1>1, <3>1
        <3> QED BY <2>2, <3>2
    <2> QED BY <2>1, <2>2
<1>5. \A n \in Nat : n \in D
    BY <1>3, <1>4, AllNumbers
<1> QED BY <1>1, <1>2, <1>5

\* What holds of the first value and is kept by each step holds of the fold.
LEMMA FoldStays ==
    ASSUME NEW S, IsFiniteSet(S), NEW G, NEW h, h[{}] \in G,
           \A s \in SUBSET S : s # {} /\ h[Rest(s)] \in G => h[s] \in G
    PROVE  h[S] \in G
<1>1. PICK P : P = {s \in SUBSET S : h[s] \in G}
    OBVIOUS
<1>2. {} \in P
    BY <1>1
<1>3. \A s \in SUBSET S : s # {} /\ Rest(s) \in P => s \in P
    BY <1>1
<1>4. \A s \in SUBSET S : s \in P
    BY <1>2, <1>3, AllSubsets
<1> QED BY <1>1, <1>4

\* f has the values of a fold over the sets of S, from base and with the steps o.
FoldsTo(f, S, base, o) ==
    /\ f[{}] = base
    /\ \A s \in SUBSET S : s # {} => f[s] = o[<<Pick(s), f[Rest(s)]>>]

\* There is such a function.
LEMMA FoldExists ==
    ASSUME NEW S, IsFiniteSet(S), NEW G, NEW base \in G, NEW o \in [S \X G -> G]
    PROVE  \E f \in [SUBSET S -> G] : FoldsTo(f, S, base, o)
<1> DEFINE Upto(f, n) ==
               /\ f[{}] = base
               /\ \A s \in SUBSET S :
                      s # {} /\ Cardinality(s) <= n => f[s] = o[<<Pick(s), f[Rest(s)]>>]
<1>1. PICK D \in SUBSET Nat : D = {n \in Nat : \E f \in [SUBSET S -> G] : Upto(f, n)}
    OBVIOUS
<1>2. \A s \in SUBSET S : Cardinality(s) \in Nat /\ (s # {} => Cardinality(s) # 0)
    BY FS_Subset, FS_CardinalityType, FS_EmptySet
<1>3. 0 \in D
    <2>1. PICK f \in [SUBSET S -> G] : f = [s \in SUBSET S |-> base]
        OBVIOUS
    <2>2. f[{}] = base
        BY <2>1
    <2>3. Upto(f, 0)
        BY <1>2, <2>2
    <2> QED BY <1>1, <2>3
<1>4. ASSUME NEW n \in D PROVE n + 1 \in D
    <2>1. PICK f \in [SUBSET S -> G] : Upto(f, n)
        BY <1>1
    <2>2. \A s \in SUBSET S : s # {} => /\ Pick(s) \in S /\ Rest(s) \in SUBSET S
                                        /\ f[Rest(s)] \in G
                                        /\ o[<<Pick(s), f[Rest(s)]>>] \in G
        BY PickTakesOne
    <2>3. PICK g : g = [s \in SUBSET S |->
                           IF s = {} THEN base ELSE o[<<Pick(s), f[Rest(s)]>>]]
        OBVIOUS
    <2>4. g \in [SUBSET S -> G]
        BY <2>2, <2>3
    <2>5. g[{}] = base /\ f[{}] = base
        BY <2>1, <2>3
    <2>6. ASSUME NEW s \in SUBSET S, s # {}, Cardinality(s) <= n + 1
          PROVE  g[s] = o[<<Pick(s), g[Rest(s)]>>]
        <3>1. g[s] = o[<<Pick(s), f[Rest(s)]>>]
            BY <2>3, <2>6
        <3>2. Rest(s) \in SUBSET S /\ Cardinality(Rest(s)) <= n
            BY <1>1, <2>6, PickTakesOne
        <3>3. CASE Rest(s) = {}
            BY <2>5, <3>1, <3>3
        <3>4. CASE Rest(s) # {}
            <4>1. f[Rest(s)] = o[<<Pick(Rest(s)), f[Rest(Rest(s))]>>]
                BY <2>1, <3>2, <3>4
            <4>2. g[Rest(s)] = o[<<Pick(Rest(s)), f[Rest(Rest(s))]>>]
                BY <2>3, <3>2, <3>4
            <4> QED BY <3>1, <4>1, <4>2
        <3> QED BY <3>3, <3>4
    <2>7. Upto(g, n + 1)
        BY <2>5, <2>6
    <2> QED BY <1>1, <2>4, <2>7
<1>5. \A n \in Nat : n \in D
    BY <1>3, <1>4, AllNumbers
<1>6. PICK f \in [SUBSET S -> G] : Upto(f, Cardinality(S))
    BY <1>1, <1>5, FS_CardinalityType
<1>7. \A s \in SUBSET S : Cardinality(s) <= Cardinality(S)
    BY FS_Subset
<1> QED BY <1>6, <1>7 DEF FoldsTo

-------------------------------------------------------------------------------
(* Sums. *)

\* The sums over the sets of places of f.
SumsTo(f, sum) ==
    sum = [s \in SUBSET DOMAIN f |->
        IF s = {} THEN 0 ELSE f[CHOOSE x \in s : TRUE] + sum[s \ {CHOOSE x \in s : TRUE}]]

\* SumFunction with its fold written out.
LEMMA SumFunctionIs ==
    ASSUME NEW f
    PROVE  SumFunction(f) = (CHOOSE sum : SumsTo(f, sum))[DOMAIN f]
BY Zenon DEF SumFunction, SumFunctionOnSet, FoldFunctionOnSet, MapThenFoldSet, SumsTo

\* A sum is taken one element at a time.
LEMMA SumFolds ==
    ASSUME NEW S, IsFiniteSet(S), NEW f \in [S -> Nat]
    PROVE  \E h : /\ SumFunction(f) = h[S] /\ h[{}] = 0
                  /\ \A s \in SUBSET S : s # {} => h[s] = f[Pick(s)] + h[Rest(s)]
<1>0. PICK N : N = Nat /\ 0 \in N
    OBVIOUS
<1>1. PICK o \in [S \X N -> N] : \A x \in S, n \in Nat : o[<<x, n>>] = f[x] + n
    <2>1. [y \in S \X Nat |-> f[y[1]] + y[2]] \in [S \X Nat -> Nat]
        OBVIOUS
    <2> QED BY <1>0, <2>1
<1>2. PICK sum \in [SUBSET S -> N] :
          /\ sum[{}] = 0
          /\ \A s \in SUBSET S : s # {} => sum[s] = o[<<Pick(s), sum[Rest(s)]>>]
    <2>1. \E sum \in [SUBSET S -> N] : FoldsTo(sum, S, 0, o)
        BY <1>0, FoldExists
    <2> QED BY <2>1 DEF FoldsTo
<1>3. SumsTo(f, sum)
    <2>1. \A s \in SUBSET S : s # {} => sum[s] = f[Pick(s)] + sum[Rest(s)]
        BY <1>0, <1>1, <1>2, PickTakesOne
    <2>2. \A s \in SUBSET S :
              sum[s] = IF s = {} THEN 0 ELSE f[Pick(s)] + sum[Rest(s)]
        BY <1>2, <2>1
    <2>3. DOMAIN f = S
        OBVIOUS
    <2>4. sum = [s \in SUBSET S |-> IF s = {} THEN 0 ELSE f[Pick(s)] + sum[Rest(s)]]
        BY <2>2
    <2> QED BY <2>3, <2>4 DEF SumsTo, Pick, Rest
<1>4. PICK h : h = (CHOOSE t : SumsTo(f, t)) /\ SumsTo(f, h)
    BY <1>3
<1>5. /\ h[{}] = 0
      /\ \A s \in SUBSET S : s # {} => h[s] = f[Pick(s)] + h[Rest(s)]
    BY <1>4 DEF SumsTo, Pick, Rest
<1>6. SumFunction(f) = h[S]
    BY <1>4, SumFunctionIs
<1> QED BY <1>5, <1>6

\* A sum of numbers is a number.
LEMMA SumIsNat ==
    ASSUME NEW S, IsFiniteSet(S), NEW f \in [S -> Nat]
    PROVE  SumFunction(f) \in Nat
<1>1. PICK h : /\ SumFunction(f) = h[S] /\ h[{}] = 0
               /\ \A s \in SUBSET S : s # {} => h[s] = f[Pick(s)] + h[Rest(s)]
    BY SumFolds
<1>2. PICK N : N = Nat
    OBVIOUS
<1>3. \A s \in SUBSET S : s # {} /\ h[Rest(s)] \in N => h[s] \in N
    BY <1>1, <1>2, PickTakesOne
<1>4. h[S] \in N
    BY <1>1, <1>2, <1>3, FoldStays
<1> QED BY <1>1, <1>2, <1>4

\* A sum with one summand that counts.
LEMMA SumOfOne ==
    ASSUME NEW S, IsFiniteSet(S), NEW f \in [S -> Nat], NEW g \in S,
           \A x \in S : x # g => f[x] = 0
    PROVE  SumFunction(f) = f[g]
<1>1. PICK h : /\ SumFunction(f) = h[S] /\ h[{}] = 0
               /\ \A s \in SUBSET S : s # {} => h[s] = f[Pick(s)] + h[Rest(s)]
    BY SumFolds
<1>2. PICK n \in Nat : n = f[g]
    OBVIOUS
<1>3. PICK P : P = {s \in SUBSET S : h[s] = IF g \in s THEN n ELSE 0}
    OBVIOUS
<1>4. {} \in P
    BY <1>1, <1>3
<1>5. ASSUME NEW s \in SUBSET S, s # {}, Rest(s) \in P PROVE s \in P
    <2>1. PICK x \in S : x = Pick(s) /\ x \in s /\ Rest(s) = s \ {x}
        BY <1>5 DEF Pick, Rest
    <2>2. h[s] = f[x] + h[Rest(s)]
        BY <1>1, <1>5, <2>1
    <2>3. h[Rest(s)] = IF g \in Rest(s) THEN n ELSE 0
        BY <1>3, <1>5
    <2>4. CASE x = g
        BY <1>2, <1>3, <2>1, <2>2, <2>3, <2>4
    <2>5. CASE x # g
        <3>1. f[x] = 0 /\ (g \in Rest(s) <=> g \in s)
            BY <2>1, <2>5
        <3> QED BY <1>3, <2>2, <2>3, <3>1
    <2> QED BY <2>4, <2>5
<1>6. \A s \in SUBSET S : s \in P
    BY <1>4, <1>5, AllSubsets
<1> QED BY <1>1, <1>2, <1>3, <1>6

-------------------------------------------------------------------------------
(* A player's data, and what is right about it. *)

\* What TypeOK says of a player.
PlayerData ==
    [used : SUBSET Groups, data : [Groups -> [Cols -> Nat]], properties : [Cols -> Nat],
     level : 1 .. Levels, hp : Nat, shown : [Clients -> View \cup {NoView}],
     untold : SUBSET (Clients \X Groups), unsummed : SUBSET Cols]

\* The values in C are the sums over the rows, and HP is within MAXHP.
Summed(w, C) == \A c \in C : w.properties[c] = SumOf(w, c)
HpFits(w) == w.hp <= w.properties[MaxHpCol]

\* Clients show the values, and show the rows in R of which they were told.
ValuesShown(w) ==
    \A x \in Clients : w.shown[x] # NoView =>
        w.shown[x].properties = w.properties /\ w.shown[x].hp = w.hp
RowsShown(w, R) ==
    \A x \in Clients : w.shown[x] # NoView =>
        \A r \in R : <<x, r>> \notin w.untold =>
            w.shown[x].rows[r] = IF r \in w.used THEN w.data[r] ELSE NoRow

\* What a change of values or HP leaves alone.
SameRecord(w, r) ==
    /\ r.used = w.used /\ r.data = w.data /\ r.level = w.level
    /\ r.untold = w.untold
    /\ \A x \in Clients : /\ w.shown[x] = NoView <=> r.shown[x] = NoView
                          /\ w.shown[x] # NoView => r.shown[x].rows = w.shown[x].rows

\* The fields of a player and of a view.
LEMMA Fields ==
    ASSUME NEW w \in PlayerData
    PROVE  /\ w.used \in SUBSET Groups /\ w.data \in [Groups -> [Cols -> Nat]]
           /\ w.properties \in [Cols -> Nat] /\ w.level \in 1 .. Levels /\ w.hp \in Nat
           /\ w.shown \in [Clients -> View \cup {NoView}]
           /\ w.untold \in SUBSET (Clients \X Groups) /\ w.unsummed \in SUBSET Cols
BY DEF PlayerData

\* A view is something, and so is a row.
LEMMA ViewIsThere ==
    /\ \A v \in View : v # NoView
    /\ \A row \in [Cols -> Nat] : row # NoRow
<1>1. ASSUME NEW v \in View PROVE v # NoView
    <2>1. DOMAIN v = {"rows", "properties", "hp"}
        BY DEF View
    <2>2. DOMAIN NoView = {}
        BY DEF NoView
    <2> QED BY <2>1, <2>2
<1>2. ASSUME NEW row \in [Cols -> Nat] PROVE row # NoRow
    <2>1. DOMAIN row = Cols
        OBVIOUS
    <2>2. DOMAIN NoRow = {}
        BY DEF NoRow
    <2> QED BY <2>1, <2>2, ColsAssumption
<1> QED BY <1>1, <1>2

\* Sums depend on the rows alone.
LEMMA SumsOfRows ==
    ASSUME NEW w, NEW r, NEW c, r.used = w.used,
           \A g \in w.used : r.data[g][c] = w.data[g][c]
    PROVE  SumOf(r, c) = SumOf(w, c)
<1>1. [g \in r.used |-> r.data[g][c]] = [g \in w.used |-> w.data[g][c]]
    OBVIOUS
<1> QED BY <1>1 DEF SumOf

\* The sum of a column is a number.
LEMMA SumOfIsNat ==
    ASSUME NEW w \in PlayerData, NEW c \in Cols
    PROVE  SumOf(w, c) \in Nat
<1>1. PICK S : S = w.used
    OBVIOUS
<1>2. IsFiniteSet(S)
    BY <1>1, Fields, FS_Subset, GroupsAssumption
<1>3. PICK f : f = [g \in S |-> w.data[g][c]]
    OBVIOUS
<1>4. f \in [S -> Nat]
    BY <1>1, <1>3, Fields
<1>5. SumFunction(f) \in Nat
    BY <1>2, <1>4, SumIsNat
<1> QED BY <1>1, <1>3, <1>5 DEF SumOf

\* Rows are shown as before when neither they nor what is shown of them changes.
LEMMA RowsStay ==
    ASSUME NEW w, NEW r, SameRecord(w, r), NEW R \in SUBSET Groups, RowsShown(w, R)
    PROVE  RowsShown(r, R)
<1> SUFFICES ASSUME NEW x \in Clients, r.shown[x] # NoView,
                    NEW g \in R, <<x, g>> \notin r.untold
             PROVE  r.shown[x].rows[g] = IF g \in r.used THEN r.data[g] ELSE NoRow
    BY DEF RowsShown
<1>1. w.shown[x] # NoView /\ r.shown[x].rows = w.shown[x].rows
    BY DEF SameRecord
<1>2. w.shown[x].rows[g] = IF g \in w.used THEN w.data[g] ELSE NoRow
    BY <1>1 DEF RowsShown, SameRecord
<1> QED BY <1>1, <1>2 DEF SameRecord

\* One change after the other.
LEMMA SameTwice ==
    ASSUME NEW w, NEW s, NEW r, SameRecord(w, s), SameRecord(s, r)
    PROVE  SameRecord(w, r)
BY DEF SameRecord

\* Setting HP tells whoever shows the player.
LEMMA SetHPDoes ==
    ASSUME NEW w \in PlayerData, NEW v \in Nat, NEW r, r = SetHP(w, v), ValuesShown(w)
    PROVE  /\ r \in PlayerData /\ SameRecord(w, r)
           /\ r.properties = w.properties /\ r.unsummed = w.unsummed
           /\ r.hp = v /\ ValuesShown(r)
<1>1. CASE v = w.hp
    BY <1>1 DEF SetHP, SameRecord
<1>2. CASE v # w.hp
    <2>1. PICK shown : shown = [c \in Clients |->
              IF c \in Told(w) THEN [w.shown[c] EXCEPT !.hp = v] ELSE NoView]
        OBVIOUS
    <2>2. r = [w EXCEPT !.hp = v, !.shown = shown]
        BY <1>2, <2>1 DEF SetHP
    <2>3. ASSUME NEW c \in Clients
          PROVE  /\ w.shown[c] = NoView => shown[c] = NoView
                 /\ w.shown[c] # NoView => /\ shown[c] \in View
                                           /\ shown[c].rows = w.shown[c].rows
                                           /\ shown[c].properties = w.shown[c].properties
                                           /\ shown[c].hp = v
        <3>1. CASE w.shown[c] = NoView
            BY <2>1, <3>1 DEF Told
        <3>2. CASE w.shown[c] # NoView
            <4>1. w.shown[c] \in View /\ shown[c] = [w.shown[c] EXCEPT !.hp = v]
                BY <2>1, <3>2, Fields DEF Told
            <4> QED BY <3>2, <4>1 DEF View
        <3> QED BY <3>1, <3>2
    <2>4. shown \in [Clients -> View \cup {NoView}]
        <3>1. \A c \in Clients : shown[c] \in View \cup {NoView}
            BY <2>3
        <3> QED BY <2>1, <3>1
    <2>5. /\ r.used = w.used /\ r.data = w.data /\ r.level = w.level /\ r.untold = w.untold
          /\ r.properties = w.properties /\ r.unsummed = w.unsummed /\ r.hp = v
          /\ r.shown = shown /\ r \in PlayerData
        BY <2>2, <2>4 DEF PlayerData
    <2>6. ValuesShown(r)
        BY <2>3, <2>5 DEF ValuesShown
    <2>7. SameRecord(w, r)
        BY <2>3, <2>5, ViewIsThere DEF SameRecord
    <2> QED BY <2>5, <2>6, <2>7
<1> QED BY <1>1, <1>2

\* Setting a value tells whoever shows the player, and keeps HP below MAXHP.
LEMMA SetPropertyDoes ==
    ASSUME NEW w \in PlayerData, NEW c \in Cols, NEW v \in Nat, NEW r,
           r = SetProperty(w, c, v), ValuesShown(w), HpFits(w)
    PROVE  /\ r \in PlayerData /\ SameRecord(w, r)
           /\ r.properties = [w.properties EXCEPT ![c] = v] /\ r.unsummed = w.unsummed
           /\ HpFits(r) /\ ValuesShown(r)
<1>1. CASE v = w.properties[c]
    <2>1. r = w
        BY <1>1 DEF SetProperty
    <2>2. w.properties = [w.properties EXCEPT ![c] = v]
        BY <1>1, Fields
    <2> QED BY <2>1, <2>2 DEF SameRecord
<1>2. CASE v # w.properties[c]
    <2>1. PICK shown : shown = [x \in Clients |->
              IF x \in Told(w) THEN [w.shown[x] EXCEPT !.properties[c] = v] ELSE NoView]
        OBVIOUS
    <2>2. PICK s : s = [w EXCEPT !.properties[c] = v, !.shown = shown]
        OBVIOUS
    <2>3. r = IF c = MaxHpCol THEN OnObjectMAXHPEvent(s, v) ELSE s
        BY <1>2, <2>1, <2>2 DEF SetProperty
    <2>4. PICK p : p = [w.properties EXCEPT ![c] = v]
        OBVIOUS
    <2>5. p \in [Cols -> Nat] /\ p[c] = v /\ \A d \in Cols : d # c => p[d] = w.properties[d]
        BY <2>4, Fields
    <2>6. ASSUME NEW x \in Clients
          PROVE  /\ w.shown[x] = NoView => shown[x] = NoView
                 /\ w.shown[x] # NoView => /\ shown[x] \in View
                                           /\ shown[x].rows = w.shown[x].rows
                                           /\ shown[x].properties = p
                                           /\ shown[x].hp = w.hp
        <3>1. CASE w.shown[x] = NoView
            BY <2>1, <3>1 DEF Told
        <3>2. CASE w.shown[x] # NoView
            <4>1. /\ w.shown[x] \in View /\ w.shown[x].properties = w.properties
                  /\ w.shown[x].hp = w.hp
                BY <3>2, Fields DEF ValuesShown
            <4>2. shown[x] = [w.shown[x] EXCEPT !.properties = [@ EXCEPT ![c] = v]]
                BY <2>1, <3>2 DEF Told
            <4>3. shown[x] = [w.shown[x] EXCEPT !.properties = p]
                BY <2>4, <4>1, <4>2
            <4> QED BY <2>5, <3>2, <4>1, <4>3 DEF View
        <3> QED BY <3>1, <3>2
    <2>7. shown \in [Clients -> View \cup {NoView}]
        <3>1. \A x \in Clients : shown[x] \in View \cup {NoView}
            BY <2>6
        <3> QED BY <2>1, <3>1
    <2>8. s = [w EXCEPT !.properties = p, !.shown = shown]
        BY <2>2, <2>4
    <2>9. /\ s.used = w.used /\ s.data = w.data /\ s.level = w.level /\ s.untold = w.untold
          /\ s.properties = p /\ s.unsummed = w.unsummed /\ s.hp = w.hp
          /\ s.shown = shown /\ s \in PlayerData
        BY <2>5, <2>7, <2>8 DEF PlayerData
    <2>10. ValuesShown(s)
        BY <2>6, <2>9 DEF ValuesShown
    <2>11. SameRecord(w, s)
        BY <2>6, <2>9, ViewIsThere DEF SameRecord
    <2>12. CASE c # MaxHpCol
        <3>1. r = s
            BY <2>3, <2>12
        <3>2. HpFits(s)
            BY <2>5, <2>9, <2>12, ColsAssumption DEF HpFits
        <3> QED BY <2>4, <2>9, <2>10, <2>11, <3>1, <3>2
    <2>13. CASE c = MaxHpCol
        <3>1. r = IF s.hp > v THEN SetHP(s, v) ELSE s
            BY <2>3, <2>13 DEF OnObjectMAXHPEvent
        <3>2. CASE s.hp > v
            <4>1. /\ r \in PlayerData /\ SameRecord(s, r)
                  /\ r.properties = s.properties /\ r.unsummed = s.unsummed
                  /\ r.hp = v /\ ValuesShown(r)
                BY <2>9, <2>10, <3>1, <3>2, SetHPDoes
            <4>2. HpFits(r)
                BY <2>5, <2>9, <2>13, <4>1 DEF HpFits
            <4> QED BY <2>4, <2>9, <2>11, <4>1, <4>2, SameTwice
        <3>3. CASE ~(s.hp > v)
            <4>1. s.hp \in Nat
                BY <2>9, Fields
            <4>2. HpFits(s)
                BY <2>5, <2>9, <2>13, <3>3, <4>1 DEF HpFits
            <4> QED BY <2>4, <2>9, <2>10, <2>11, <3>1, <3>3, <4>2
        <3> QED BY <3>2, <3>3
    <2> QED BY <2>12, <2>13
<1> QED BY <1>1, <1>2

\* A column is summed again; the others keep their sums.
LEMMA OnRecordEventDoes ==
    ASSUME NEW w \in PlayerData, NEW c \in Cols, NEW r, r = OnRecordEvent(w, c),
           ValuesShown(w), HpFits(w), Summed(w, Cols \ (w.unsummed \cup {c}))
    PROVE  /\ r \in PlayerData /\ SameRecord(w, r)
           /\ r.unsummed = w.unsummed \ {c} /\ Summed(r, Cols \ r.unsummed)
           /\ HpFits(r) /\ ValuesShown(r)
<1>1. PICK s : s = [w EXCEPT !.unsummed = @ \ {c}]
    OBVIOUS
<1>2. PICK n \in Nat : n = SumOf(w, c)
    BY SumOfIsNat
<1>3. r = SetProperty(s, c, n)
    BY <1>1, <1>2 DEF OnRecordEvent
<1>4. /\ s.used = w.used /\ s.data = w.data /\ s.level = w.level /\ s.untold = w.untold
      /\ s.properties = w.properties /\ s.unsummed = w.unsummed \ {c} /\ s.hp = w.hp
      /\ s.shown = w.shown /\ s \in PlayerData
    BY <1>1 DEF PlayerData
<1>5. ValuesShown(s) /\ HpFits(s)
    BY <1>4 DEF ValuesShown, HpFits
<1>6. SameRecord(w, s)
    BY <1>4 DEF SameRecord
<1>7. /\ r \in PlayerData /\ SameRecord(s, r)
      /\ r.properties = [w.properties EXCEPT ![c] = n] /\ r.unsummed = s.unsummed
      /\ HpFits(r) /\ ValuesShown(r)
    <2>1. /\ r \in PlayerData /\ SameRecord(s, r)
          /\ r.properties = [s.properties EXCEPT ![c] = n] /\ r.unsummed = s.unsummed
          /\ HpFits(r) /\ ValuesShown(r)
        BY <1>3, <1>4, <1>5, SetPropertyDoes
    <2> QED BY <1>4, <2>1
<1>8. SameRecord(w, r)
    BY <1>6, <1>7, SameTwice
<1>9. ASSUME NEW d \in Cols \ r.unsummed PROVE r.properties[d] = SumOf(r, d)
    <2>1. SumOf(r, d) = SumOf(w, d)
        BY <1>8, SumsOfRows DEF SameRecord
    <2>2. CASE d = c
        BY <1>2, <1>7, <2>1, <2>2, Fields
    <2>3. CASE d # c
        <3>1. d \in Cols \ (w.unsummed \cup {c}) /\ r.properties[d] = w.properties[d]
            BY <1>4, <1>7, <1>9, <2>3, Fields
        <3> QED BY <2>1, <3>1 DEF Summed
    <2> QED BY <2>2, <2>3
<1> QED BY <1>4, <1>7, <1>8, <1>9 DEF Summed

-------------------------------------------------------------------------------
(* The chains of callbacks. *)

\* Everything the properties say of a player, and its types.
Sound(w) ==
    /\ w \in PlayerData
    /\ Summed(w, Cols \ w.unsummed) /\ HpFits(w)
    /\ ValuesShown(w) /\ RowsShown(w, Groups)

\* After the record's event all is well if the rows were shown before it.
LEMMA OnRecordEventSound ==
    ASSUME NEW w \in PlayerData, NEW c \in Cols, NEW r, r = OnRecordEvent(w, c),
           ValuesShown(w), HpFits(w), Summed(w, Cols \ (w.unsummed \cup {c})),
           RowsShown(w, Groups)
    PROVE  Sound(r) /\ r.level = w.level
<1>1. /\ r \in PlayerData /\ SameRecord(w, r)
      /\ r.unsummed = w.unsummed \ {c} /\ Summed(r, Cols \ r.unsummed)
      /\ HpFits(r) /\ ValuesShown(r)
    BY OnRecordEventDoes
<1>2. RowsShown(r, Groups) /\ r.level = w.level
    BY <1>1, RowsStay DEF SameRecord
<1> QED BY <1>1, <1>2 DEF Sound

\* HP set to what MAXHP allows.
LEMMA SetHPSound ==
    ASSUME NEW w, Sound(w), NEW v \in Nat, v <= w.properties[MaxHpCol]
    PROVE  Sound(SetHP(w, v)) /\ SetHP(w, v).level = w.level
<1>1. PICK r : r = SetHP(w, v)
    OBVIOUS
<1>2. w \in PlayerData /\ ValuesShown(w)
    BY DEF Sound
<1>3. /\ r \in PlayerData /\ SameRecord(w, r)
      /\ r.properties = w.properties /\ r.unsummed = w.unsummed
      /\ r.hp = v /\ ValuesShown(r)
    BY <1>1, <1>2, SetHPDoes
<1>4. HpFits(r)
    BY <1>3 DEF HpFits
<1>5. Summed(r, Cols \ r.unsummed)
    <2>1. \A c \in Cols : SumOf(r, c) = SumOf(w, c)
        BY <1>3, SumsOfRows DEF SameRecord
    <2> QED BY <1>3, <2>1 DEF Sound, Summed
<1>6. RowsShown(r, Groups) /\ r.level = w.level
    BY <1>3, RowsStay DEF SameRecord, Sound
<1> QED BY <1>1, <1>3, <1>4, <1>5, <1>6 DEF Sound

\* HP set to MAXHP.
LEMMA FullHPMPSound ==
    ASSUME NEW w, Sound(w)
    PROVE  Sound(FullHPMP(w)) /\ FullHPMP(w).level = w.level
<1>1. PICK v \in Nat : v = w.properties[MaxHpCol]
    <2>1. w.properties \in [Cols -> Nat]
        BY Fields DEF Sound
    <2> QED BY <2>1, ColsAssumption
<1>2. Sound(SetHP(w, v)) /\ SetHP(w, v).level = w.level
    BY <1>1, SetHPSound
<1> QED BY <1>1, <1>2 DEF FullHPMP

\* A row comes into use with no event.
LEMMA SetUsedSound ==
    ASSUME NEW w, Sound(w), NEW g \in Groups
    PROVE  Sound(SetUsed(w, g)) /\ SetUsed(w, g).level = w.level
<1>1. CASE g \in w.used
    BY <1>1 DEF SetUsed
<1>2. CASE g \notin w.used
    <2>1. PICK told : told = w.untold \cup {<<c, g>> : c \in Clients}
        OBVIOUS
    <2>2. PICK r : r = [w EXCEPT !.used = @ \cup {g}, !.untold = told, !.unsummed = Cols]
        OBVIOUS
    <2>3. r = SetUsed(w, g)
        BY <1>2, <2>1, <2>2 DEF SetUsed
    <2>4. w \in PlayerData
        BY DEF Sound
    <2>5. told \in SUBSET (Clients \X Groups)
        BY <2>1, <2>4, Fields
    <2>6. /\ r.used = w.used \cup {g} /\ r.data = w.data /\ r.level = w.level
          /\ r.untold = told /\ r.properties = w.properties /\ r.unsummed = Cols
          /\ r.hp = w.hp /\ r.shown = w.shown /\ r \in PlayerData
        BY <2>2, <2>4, <2>5 DEF PlayerData
    <2>7. Summed(r, Cols \ r.unsummed)
        BY <2>6 DEF Summed
    <2>8. HpFits(r) /\ ValuesShown(r)
        BY <2>6 DEF Sound, HpFits, ValuesShown
    <2>9. RowsShown(r, Groups)
        <3> SUFFICES ASSUME NEW x \in Clients, r.shown[x] # NoView,
                            NEW h \in Groups, <<x, h>> \notin told
                     PROVE  r.shown[x].rows[h] = IF h \in r.used THEN r.data[h] ELSE NoRow
            BY <2>6 DEF RowsShown
        <3>1. h # g /\ <<x, h>> \notin w.untold
            BY <2>1
        <3> QED BY <2>6, <3>1 DEF Sound, RowsShown
    <2> QED BY <2>3, <2>6, <2>7, <2>8, <2>9 DEF Sound
<1> QED BY <1>1, <1>2

\* A cell is written, shown and summed.
LEMMA SetCellSound ==
    ASSUME NEW w, Sound(w), NEW g \in Groups, NEW c \in Cols, NEW v \in Nat
    PROVE  Sound(SetCell(w, g, c, v)) /\ SetCell(w, g, c, v).level = w.level
<1>1. CASE g \notin w.used \/ w.data[g][c] = v
    BY <1>1 DEF SetCell
<1>2. CASE g \in w.used /\ w.data[g][c] # v
    <2>1. PICK data : data = [w.data EXCEPT ![g][c] = v]
        OBVIOUS
    <2>2. PICK shown : shown = [x \in Clients |->
              IF x \in Told(w)
              THEN IF w.shown[x].rows[g] = NoRow THEN w.shown[x]
                   ELSE [w.shown[x] EXCEPT !.rows[g][c] = v]
              ELSE NoView]
        OBVIOUS
    <2>3. PICK s : s = [w EXCEPT !.data = data, !.shown = shown]
        OBVIOUS
    <2>4. SetCell(w, g, c, v) = OnRecordEvent(s, c)
        BY <1>2, <2>1, <2>2, <2>3 DEF SetCell
    <2>5. w \in PlayerData
        BY DEF Sound
    <2>6. PICK row \in [Cols -> Nat] : /\ row = [w.data[g] EXCEPT ![c] = v]
                                       /\ \A d \in Cols : d # c => row[d] = w.data[g][d]
        <3>1. w.data[g] \in [Cols -> Nat]
            BY <2>5, Fields
        <3> QED BY <3>1
    <2>7. /\ data \in [Groups -> [Cols -> Nat]] /\ data[g] = row
          /\ \A h \in Groups : h # g => data[h] = w.data[h]
        <3>1. data = [w.data EXCEPT ![g] = row]
            BY <2>1, <2>6
        <3> QED BY <2>5, <3>1, Fields
    <2>8. ASSUME NEW x \in Clients, w.shown[x] # NoView
          PROVE  /\ shown[x] \in View
                 /\ shown[x].properties = w.shown[x].properties /\ shown[x].hp = w.shown[x].hp
                 /\ \A h \in Groups : h # g => shown[x].rows[h] = w.shown[x].rows[h]
                 /\ w.shown[x].rows[g] = w.data[g] => shown[x].rows[g] = row
        <3>1. PICK view \in View : view = w.shown[x]
            BY <2>5, <2>8, Fields
        <3>2. view.rows \in [Groups -> [Cols -> Nat] \cup {NoRow}]
            BY <3>1 DEF View
        <3>3. CASE view.rows[g] = NoRow
            <4>1. shown[x] = view
                BY <2>2, <2>8, <3>1, <3>3 DEF Told
            <4>2. w.data[g] # NoRow
                BY <2>5, Fields, ViewIsThere
            <4> QED BY <3>1, <3>3, <4>1, <4>2
        <3>4. CASE view.rows[g] # NoRow
            <4>1. shown[x] = [view EXCEPT !.rows[g][c] = v]
                BY <2>2, <2>8, <3>1, <3>4 DEF Told
            <4>2. PICK new : new = [view.rows[g] EXCEPT ![c] = v]
                OBVIOUS
            <4>3. new \in [Cols -> Nat]
                BY <3>2, <3>4, <4>2
            <4>4. PICK rows : rows = [view.rows EXCEPT ![g] = new]
                OBVIOUS
            <4>5. /\ rows \in [Groups -> [Cols -> Nat] \cup {NoRow}] /\ rows[g] = new
                  /\ \A h \in Groups : h # g => rows[h] = view.rows[h]
                BY <3>2, <4>3, <4>4
            <4>6. shown[x] = [view EXCEPT !.rows = rows]
                BY <4>1, <4>2, <4>4
            <4>7. /\ shown[x] \in View /\ shown[x].rows = rows
                  /\ shown[x].properties = view.properties /\ shown[x].hp = view.hp
                BY <4>5, <4>6 DEF View
            <4> QED BY <2>6, <3>1, <4>2, <4>5, <4>7
        <3> QED BY <3>3, <3>4
    <2>9. \A x \in Clients : w.shown[x] = NoView => shown[x] = NoView
        BY <2>2 DEF Told
    <2>10. shown \in [Clients -> View \cup {NoView}]
        <3>1. \A x \in Clients : shown[x] \in View \cup {NoView}
            BY <2>8, <2>9
        <3> QED BY <2>2, <3>1
    <2>11. /\ s.used = w.used /\ s.data = data /\ s.level = w.level
           /\ s.untold = w.untold /\ s.properties = w.properties /\ s.unsummed = w.unsummed
           /\ s.hp = w.hp /\ s.shown = shown /\ s \in PlayerData
        BY <2>3, <2>5, <2>7, <2>10 DEF PlayerData
    <2>12. HpFits(s)
        BY <2>11 DEF Sound, HpFits
    <2>13. ValuesShown(s)
        BY <2>8, <2>9, <2>11 DEF Sound, ValuesShown
    <2>14. RowsShown(s, Groups)
        <3> SUFFICES ASSUME NEW x \in Clients, s.shown[x] # NoView,
                            NEW h \in Groups, <<x, h>> \notin w.untold
                     PROVE  s.shown[x].rows[h] = IF h \in w.used THEN data[h] ELSE NoRow
            BY <2>11 DEF RowsShown
        <3>1. w.shown[x] # NoView
            BY <2>9, <2>11
        <3>2. w.shown[x].rows[h] = IF h \in w.used THEN w.data[h] ELSE NoRow
            BY <3>1 DEF Sound, RowsShown
        <3>3. CASE h = g
            BY <1>2, <2>7, <2>8, <2>11, <3>1, <3>2, <3>3
        <3>4. CASE h # g
            BY <2>7, <2>8, <2>11, <3>1, <3>2, <3>4
        <3> QED BY <3>3, <3>4
    <2>15. Summed(s, Cols \ (s.unsummed \cup {c}))
        <3> SUFFICES ASSUME NEW d \in Cols, d \notin w.unsummed, d # c
                     PROVE  s.properties[d] = SumOf(s, d)
            BY <2>11 DEF Summed
        <3>1. \A h \in w.used : s.data[h][d] = w.data[h][d]
            BY <2>5, <2>6, <2>7, <2>11, Fields
        <3>2. SumOf(s, d) = SumOf(w, d)
            BY <2>11, <3>1, SumsOfRows
        <3> QED BY <2>11, <3>2 DEF Sound, Summed
    <2> QED BY <2>4, <2>11, <2>12, <2>13, <2>14, <2>15, OnRecordEventSound
<1> QED BY <1>1, <1>2

\* What clients show after a row came or went.
LEMMA ShowRowDoes ==
    ASSUME NEW w \in PlayerData, NEW g \in Groups, NEW row \in [Cols -> Nat] \cup {NoRow}
    PROVE  /\ ShowRow(w, g, row) \in [Clients -> View \cup {NoView}]
           /\ \A x \in Clients : w.shown[x] = NoView => ShowRow(w, g, row)[x] = NoView
           /\ \A x \in Clients : w.shown[x] # NoView =>
                  /\ ShowRow(w, g, row)[x].properties = w.shown[x].properties
                  /\ ShowRow(w, g, row)[x].hp = w.shown[x].hp
                  /\ ShowRow(w, g, row)[x].rows[g] = row
                  /\ \A h \in Groups : h # g =>
                         ShowRow(w, g, row)[x].rows[h] = w.shown[x].rows[h]
<1>1. PICK shown : shown = ShowRow(w, g, row)
    OBVIOUS
<1>2. \A x \in Clients : w.shown[x] = NoView => shown[x] = NoView
    BY <1>1 DEF ShowRow, Told
<1>3. ASSUME NEW x \in Clients, w.shown[x] # NoView
      PROVE  /\ shown[x] \in View
             /\ shown[x].properties = w.shown[x].properties /\ shown[x].hp = w.shown[x].hp
             /\ shown[x].rows[g] = row
             /\ \A h \in Groups : h # g => shown[x].rows[h] = w.shown[x].rows[h]
    <2>1. PICK view \in View : view = w.shown[x]
        BY <1>3, Fields
    <2>2. view.rows \in [Groups -> [Cols -> Nat] \cup {NoRow}]
        BY <2>1 DEF View
    <2>3. PICK rows : rows = [view.rows EXCEPT ![g] = row]
        OBVIOUS
    <2>4. /\ rows \in [Groups -> [Cols -> Nat] \cup {NoRow}] /\ rows[g] = row
          /\ \A h \in Groups : h # g => rows[h] = view.rows[h]
        BY <2>2, <2>3
    <2>5. shown[x] = [view EXCEPT !.rows = rows]
        BY <1>1, <1>3, <2>1, <2>3 DEF ShowRow, Told
    <2>6. /\ shown[x] \in View /\ shown[x].rows = rows
          /\ shown[x].properties = view.properties /\ shown[x].hp = view.hp
        BY <2>4, <2>5 DEF View
    <2> QED BY <2>1, <2>4, <2>6
<1>4. shown \in [Clients -> View \cup {NoView}]
    <2>1. \A x \in Clients : shown[x] \in View \cup {NoView}
        BY <1>2, <1>3
    <2>2. shown = [x \in Clients |-> shown[x]]
        BY <1>1 DEF ShowRow
    <2> QED BY <2>1, <2>2
<1> QED BY <1>1, <1>2, <1>3, <1>4

\* A row is added, or covers another.
LEMMA AddRowSound ==
    ASSUME NEW w, Sound(w), NEW g \in Groups, NEW row \in [Cols -> Nat]
    PROVE  Sound(AddRow(w, g, row))
<1>1. PICK told : told = IF g \in w.used THEN w.untold \cup {<<c, g>> : c \in Clients}
                         ELSE {x \in w.untold : x[2] # g}
    OBVIOUS
<1>2. PICK shown : shown = IF g \in w.used THEN w.shown ELSE ShowRow(w, g, row)
    OBVIOUS
<1>3. PICK data : data = [w.data EXCEPT ![g] = row]
    OBVIOUS
<1>4. PICK s : s = [w EXCEPT !.used = @ \cup {g}, !.data = data, !.unsummed = Cols,
                             !.shown = shown, !.untold = told]
    OBVIOUS
<1>5. AddRow(w, g, row) = OnRecordEvent(s, FirstCol)
    BY <1>1, <1>2, <1>3, <1>4 DEF AddRow
<1>6. w \in PlayerData
    BY DEF Sound
<1>7. /\ data \in [Groups -> [Cols -> Nat]] /\ data[g] = row
      /\ \A h \in Groups : h # g => data[h] = w.data[h]
    BY <1>3, <1>6, Fields
<1>8. told \in SUBSET (Clients \X Groups)
    BY <1>1, <1>6, Fields
<1>9. shown \in [Clients -> View \cup {NoView}]
    BY <1>2, <1>6, Fields, ShowRowDoes
<1>10. /\ s.used = w.used \cup {g} /\ s.data = data /\ s.level = w.level /\ s.untold = told
       /\ s.properties = w.properties /\ s.unsummed = Cols /\ s.hp = w.hp
       /\ s.shown = shown /\ s \in PlayerData
    BY <1>4, <1>6, <1>7, <1>8, <1>9 DEF PlayerData
<1>11. HpFits(s) /\ Summed(s, Cols \ (s.unsummed \cup {FirstCol}))
    BY <1>10 DEF Sound, HpFits, Summed
<1>12. ValuesShown(s)
    BY <1>2, <1>6, <1>10, ShowRowDoes DEF Sound, ValuesShown
<1>13. RowsShown(s, Groups)
    <2> SUFFICES ASSUME NEW x \in Clients, shown[x] # NoView,
                        NEW h \in Groups, <<x, h>> \notin told
                 PROVE  shown[x].rows[h] = IF h \in s.used THEN data[h] ELSE NoRow
        BY <1>10 DEF RowsShown
    <2>1. w.shown[x] # NoView
        BY <1>2, <1>6, ShowRowDoes
    <2>2. <<x, h>> \notin w.untold =>
              w.shown[x].rows[h] = IF h \in w.used THEN w.data[h] ELSE NoRow
        BY <2>1 DEF Sound, RowsShown
    <2>3. CASE g \in w.used
        <3>1. h # g /\ <<x, h>> \notin w.untold
            BY <1>1, <2>3
        <3> QED BY <1>2, <1>7, <1>10, <2>2, <2>3, <3>1
    <2>4. CASE g \notin w.used /\ h = g
        <3>1. shown[x].rows[g] = row
            BY <1>2, <1>6, <2>1, <2>4, ShowRowDoes
        <3> QED BY <1>7, <1>10, <2>4, <3>1
    <2>5. CASE g \notin w.used /\ h # g
        <3>1. <<x, h>> \notin w.untold
            BY <1>1, <2>5
        <3>2. shown[x].rows[h] = w.shown[x].rows[h]
            BY <1>2, <1>6, <2>1, <2>5, ShowRowDoes
        <3> QED BY <1>7, <1>10, <2>2, <2>5, <3>1, <3>2
    <2> QED BY <2>3, <2>4, <2>5
<1> QED BY <1>5, <1>10, <1>11, <1>12, <1>13, OnRecordEventSound, ColsAssumption

\* A row is removed: clients hear of it while it is there, the sums once it is not.
LEMMA RemoveSound ==
    ASSUME NEW w, Sound(w), NEW g \in Groups
    PROVE  Sound(Remove(w, g))
<1>1. CASE g \notin w.used
    BY <1>1 DEF Remove
<1>2. CASE g \in w.used
    <2>1. PICK told : told = {x \in w.untold : x[2] # g}
        OBVIOUS
    <2>2. PICK shown : shown = ShowRow(w, g, NoRow)
        OBVIOUS
    <2>3. PICK s : s = [w EXCEPT !.shown = shown, !.untold = told]
        OBVIOUS
    <2>4. PICK t : t = OnRecordEvent(s, FirstCol)
        OBVIOUS
    <2>5. RowGoes(w, g) = t
        BY <2>1, <2>2, <2>3, <2>4 DEF RowGoes
    <2>6. PICK u : u = [t EXCEPT !.used = @ \ {g}, !.unsummed = Cols]
        OBVIOUS
    <2>7. Remove(w, g) = OnRecordEvent(u, FirstCol)
        BY <1>2, <2>5, <2>6 DEF Remove
    <2>8. w \in PlayerData
        BY DEF Sound
    <2>9. /\ told \in SUBSET (Clients \X Groups)
          /\ shown \in [Clients -> View \cup {NoView}]
        BY <2>1, <2>2, <2>8, Fields, ShowRowDoes
    <2>10. /\ s.used = w.used /\ s.data = w.data /\ s.level = w.level /\ s.untold = told
           /\ s.properties = w.properties /\ s.unsummed = w.unsummed /\ s.hp = w.hp
           /\ s.shown = shown /\ s \in PlayerData
        BY <2>3, <2>8, <2>9 DEF PlayerData
    <2>11. HpFits(s) /\ ValuesShown(s)
        BY <2>2, <2>8, <2>10, ShowRowDoes DEF Sound, HpFits, ValuesShown
    <2>12. Summed(s, Cols \ (s.unsummed \cup {FirstCol}))
        <3>1. \A c \in Cols : SumOf(s, c) = SumOf(w, c)
            BY <2>10, SumsOfRows
        <3> QED BY <2>10, <3>1 DEF Sound, Summed
    <2>13. RowsShown(s, Groups \ {g})
        <3> SUFFICES ASSUME NEW x \in Clients, shown[x] # NoView,
                            NEW h \in Groups \ {g}, <<x, h>> \notin told
                     PROVE  shown[x].rows[h] = IF h \in w.used THEN w.data[h] ELSE NoRow
            BY <2>10 DEF RowsShown
        <3>1. w.shown[x] # NoView
            BY <2>2, <2>8, ShowRowDoes
        <3>2. <<x, h>> \notin w.untold
            BY <2>1
        <3>3. shown[x].rows[h] = w.shown[x].rows[h]
            BY <2>2, <2>8, <3>1, ShowRowDoes
        <3> QED BY <3>1, <3>2, <3>3 DEF Sound, RowsShown
    <2>14. \A x \in Clients : shown[x] # NoView => shown[x].rows[g] = NoRow
        BY <2>2, <2>8, ShowRowDoes
    <2>15. /\ t \in PlayerData /\ SameRecord(s, t)
           /\ HpFits(t) /\ ValuesShown(t)
        BY <2>4, <2>10, <2>11, <2>12, OnRecordEventDoes, ColsAssumption
    <2>16. RowsShown(t, Groups \ {g})
        BY <2>13, <2>15, RowsStay
    <2>17. \A x \in Clients : t.shown[x] # NoView => t.shown[x].rows[g] = NoRow
        BY <2>10, <2>14, <2>15 DEF SameRecord
    <2>18. /\ u.used = t.used \ {g} /\ u.data = t.data /\ u.level = t.level
           /\ u.untold = t.untold /\ u.properties = t.properties /\ u.unsummed = Cols
           /\ u.hp = t.hp /\ u.shown = t.shown /\ u \in PlayerData
        BY <2>6, <2>15 DEF PlayerData
    <2>19. /\ HpFits(u) /\ ValuesShown(u)
           /\ Summed(u, Cols \ (u.unsummed \cup {FirstCol}))
        BY <2>15, <2>18 DEF HpFits, ValuesShown, Summed
    <2>20. RowsShown(u, Groups)
        <3> SUFFICES ASSUME NEW x \in Clients, t.shown[x] # NoView,
                            NEW h \in Groups, <<x, h>> \notin t.untold
                     PROVE  t.shown[x].rows[h] = IF h \in t.used \ {g} THEN t.data[h] ELSE NoRow
            BY <2>18 DEF RowsShown
        <3>1. CASE h = g
            BY <2>17, <3>1
        <3>2. CASE h # g
            BY <2>16, <3>2 DEF RowsShown
        <3> QED BY <3>1, <3>2
    <2> QED BY <2>7, <2>18, <2>19, <2>20, OnRecordEventSound, ColsAssumption
<1> QED BY <1>1, <1>2

\* RefreshBaseProperty with its fold written out.
LEMMA RefreshIs ==
    ASSUME NEW w
    PROVE  RefreshBaseProperty(w) =
               (CHOOSE f : f = [s \in SUBSET Cols |->
                   IF s = {} THEN w
                   ELSE SetCell(SetUsed(f[s \ {CHOOSE x \in s : TRUE}], JobLevel), JobLevel,
                                (CHOOSE x \in s : TRUE),
                                BaseValues[w.level][CHOOSE x \in s : TRUE])])[Cols]
BY Zenon DEF RefreshBaseProperty, FoldSet, MapThenFoldSet

\* The row of the level is set column by column, and all is well after each.
LEMMA RefreshSound ==
    ASSUME NEW w, Sound(w)
    PROVE  Sound(RefreshBaseProperty(w)) /\ RefreshBaseProperty(w).level = w.level
<1>1. PICK G : G = {v \in PlayerData : Sound(v) /\ v.level = w.level}
    OBVIOUS
<1>2. PICK base \in [Cols -> Nat] : base = BaseValues[w.level]
    <2>1. w.level \in 1 .. Levels
        BY Fields DEF Sound
    <2> QED BY <2>1, LevelsAssumption
<1> DEFINE After(c, v) == SetCell(SetUsed(v, JobLevel), JobLevel, c, BaseValues[w.level][c])
<1>3. \A c \in Cols, v \in G : After(c, v) \in G
    <2> SUFFICES ASSUME NEW c \in Cols, NEW v \in G PROVE After(c, v) \in G
        OBVIOUS
    <2>1. Sound(v) /\ v.level = w.level
        BY <1>1
    <2>2. PICK u : u = SetUsed(v, JobLevel)
        OBVIOUS
    <2>3. Sound(u) /\ u.level = w.level
        BY <2>1, <2>2, SetUsedSound, GroupsAssumption
    <2>4. PICK n \in Nat : n = BaseValues[w.level][c]
        BY <1>2
    <2>5. Sound(SetCell(u, JobLevel, c, n)) /\ SetCell(u, JobLevel, c, n).level = w.level
        BY <2>3, SetCellSound, GroupsAssumption
    <2> QED BY <1>1, <2>2, <2>4, <2>5 DEF Sound
<1>4. w \in G
    BY <1>1 DEF Sound
<1>5. PICK o \in [Cols \X G -> G] : \A c \in Cols, v \in G : o[<<c, v>>] = After(c, v)
    <2>1. PICK o : o = [y \in Cols \X G |-> After(y[1], y[2])]
        OBVIOUS
    <2>2. o \in [Cols \X G -> G]
        BY <1>3, <2>1
    <2>3. \A c \in Cols, v \in G : o[<<c, v>>] = After(c, v)
        BY <2>1
    <2> QED BY <2>2, <2>3
<1> HIDE DEF After
<1>6. PICK f \in [SUBSET Cols -> G] : FoldsTo(f, Cols, w, o)
    BY <1>4, FoldExists, ColsAssumption
<1> DEFINE Folds(h) ==
           h = [s \in SUBSET Cols |-> IF s = {} THEN w ELSE After(Pick(s), h[Rest(s)])]
<1>7. Folds(f)
    <2>1. \A s \in SUBSET Cols : s # {} => f[s] = After(Pick(s), f[Rest(s)])
        BY <1>5, <1>6, PickTakesOne, ColsAssumption DEF FoldsTo
    <2>2. \A s \in SUBSET Cols : f[s] = IF s = {} THEN w ELSE After(Pick(s), f[Rest(s)])
        BY <1>6, <2>1 DEF FoldsTo
    <2> QED BY <2>2
<1>8. PICK h : h = (CHOOSE t : Folds(t)) /\ Folds(h)
    BY <1>7
<1>9. /\ h[{}] = w
      /\ \A s \in SUBSET Cols : s # {} => h[s] = After(Pick(s), h[Rest(s)])
    BY <1>8
<1>10. \A s \in SUBSET Cols : s # {} /\ h[Rest(s)] \in G => h[s] \in G
    BY <1>3, <1>9, PickTakesOne, ColsAssumption
<1>11. h[Cols] \in G
    BY <1>4, <1>9, <1>10, FoldStays, ColsAssumption
<1>12. RefreshBaseProperty(w) = h[Cols]
    <2>1. RefreshBaseProperty(w) = (CHOOSE t : Folds(t))[Cols]
        BY RefreshIs, Zenon DEF After, Pick, Rest
    <2> QED BY <1>8, <2>1
<1> QED BY <1>1, <1>11, <1>12

-------------------------------------------------------------------------------
(* The operations. *)

\* A level more: the row of the level follows, and HP is full.
LEMMA LevelUpSound ==
    ASSUME NEW w, Sound(w), w.level < Levels
    PROVE  Sound(LevelUp(w)) /\ LevelUp(w).level = w.level + 1
<1>1. PICK l \in 1 .. Levels : l = w.level + 1
    BY Fields, LevelsAssumption DEF Sound
<1>2. PICK s : s = [w EXCEPT !.level = l]
    OBVIOUS
<1>3. /\ s.used = w.used /\ s.data = w.data /\ s.level = l /\ s.untold = w.untold
      /\ s.properties = w.properties /\ s.unsummed = w.unsummed /\ s.hp = w.hp
      /\ s.shown = w.shown /\ s \in PlayerData
    BY <1>2 DEF Sound, PlayerData
<1>4. \A c \in Cols : SumOf(s, c) = SumOf(w, c)
    BY <1>3, SumsOfRows
<1>5. Sound(s)
    BY <1>3, <1>4 DEF Sound, Summed, HpFits, ValuesShown, RowsShown
<1>6. LevelUp(w) = FullHPMP(RefreshBaseProperty(s))
    BY <1>1, <1>2 DEF LevelUp
<1> QED BY <1>1, <1>3, <1>5, <1>6, RefreshSound, FullHPMPSound

\* f has the player after each of m levels.
Levelled(f, w, m) == f = [n \in 0 .. m |-> IF n = 0 THEN w ELSE LevelUp(f[n - 1])]

\* There is such an f.
LEMMA LevelledExists ==
    ASSUME NEW w, NEW m \in Nat
    PROVE  \E f : Levelled(f, w, m)
<1>1. PICK D \in SUBSET Nat : D = {n \in Nat : \E f : Levelled(f, w, n)}
    OBVIOUS
<1>2. 0 \in D
    <2>1. PICK f : f = [n \in 0 .. 0 |-> w]
        OBVIOUS
    <2>2. \A n \in 0 .. 0 : n = 0
        OBVIOUS
    <2>3. f = [n \in 0 .. 0 |-> IF n = 0 THEN w ELSE LevelUp(f[n - 1])]
        BY <2>1, <2>2
    <2> QED BY <1>1, <2>3 DEF Levelled
<1>3. ASSUME NEW k \in D PROVE k + 1 \in D
    <2>1. PICK f : Levelled(f, w, k)
        BY <1>1
    <2>2. PICK up : up = LevelUp(f[k])
        OBVIOUS
    <2>3. PICK g : g = [n \in 0 .. k + 1 |-> IF n = k + 1 THEN up ELSE f[n]]
        OBVIOUS
    <2>4. k \in Nat
        BY <1>1
    <2>5. ASSUME NEW n \in 0 .. k + 1
          PROVE  g[n] = IF n = 0 THEN w ELSE LevelUp(g[n - 1])
        <3>1. CASE n = 0
            <4>1. 0 \in 0 .. k /\ 0 # k + 1
                BY <2>4
            <4>2. f[0] = w
                BY <2>1, <4>1 DEF Levelled
            <4> QED BY <2>3, <3>1, <4>1, <4>2
        <3>2. CASE n \in 1 .. k
            <4>1. n \in 0 .. k /\ n # 0 /\ n # k + 1 /\ n - 1 \in 0 .. k + 1 /\ n - 1 # k + 1
                BY <2>4, <3>2
            <4>2. f[n] = LevelUp(f[n - 1])
                BY <2>1, <4>1 DEF Levelled
            <4>3. g[n] = f[n] /\ g[n - 1] = f[n - 1]
                BY <2>3, <4>1
            <4> QED BY <4>1, <4>2, <4>3
        <3>3. CASE n = k + 1
            <4>1. n # 0 /\ n - 1 = k /\ k \in 0 .. k + 1 /\ k # k + 1
                BY <2>4, <3>3
            <4>2. g[n] = up /\ g[n - 1] = f[k]
                BY <2>3, <3>3, <4>1
            <4> QED BY <2>2, <4>1, <4>2
        <3> QED BY <2>4, <3>1, <3>2, <3>3
    <2>6. g = [n \in 0 .. k + 1 |-> IF n = 0 THEN w ELSE LevelUp(g[n - 1])]
        BY <2>3, <2>5
    <2> QED BY <1>1, <2>4, <2>6 DEF Levelled
<1>4. \A n \in Nat : n \in D
    BY <1>2, <1>3, AllNumbers
<1> QED BY <1>1, <1>4

\* Several levels at once.
LEMMA AddExpSound ==
    ASSUME Sound(player), NEW levels \in 1 .. Levels, AddExp(levels)
    PROVE  Sound(player')
<1>1. PICK f : Levelled(f, player, levels)
    <2>1. levels \in Nat
        BY LevelsAssumption
    <2> QED BY <2>1, LevelledExists
<1>2. PICK h : h = (CHOOSE t : Levelled(t, player, levels)) /\ Levelled(h, player, levels)
    BY <1>1
<1>3. player' = h[levels] /\ player.level + levels <= Levels
    BY <1>2 DEF AddExp, Levelled
<1>4. PICK l \in 1 .. Levels : l = player.level
    BY Fields DEF Sound
<1>5. /\ levels \in Nat
      /\ h[0] = player
      /\ \A n \in 1 .. levels : h[n] = LevelUp(h[n - 1])
    <2>1. levels \in Nat
        BY LevelsAssumption
    <2>2. \A n \in 0 .. levels : h[n] = IF n = 0 THEN player ELSE LevelUp(h[n - 1])
        BY <1>2 DEF Levelled
    <2>3. 0 \in 0 .. levels /\ \A n \in 1 .. levels : n \in 0 .. levels /\ n # 0
        BY <2>1
    <2> QED BY <2>1, <2>2, <2>3
<1>6. PICK D \in SUBSET Nat :
          D = {n \in Nat : n <= levels => Sound(h[n]) /\ h[n].level = l + n}
    OBVIOUS
<1>7. 0 \in D
    <2>1. Sound(h[0]) /\ h[0].level = l + 0
        BY <1>4, <1>5
    <2> QED BY <1>6, <2>1
<1>8. ASSUME NEW n \in D PROVE n + 1 \in D
    <2> SUFFICES ASSUME n + 1 <= levels
                 PROVE  Sound(h[n + 1]) /\ h[n + 1].level = l + (n + 1)
        BY <1>6
    <2>1. /\ n \in Nat /\ n <= levels /\ n + 1 \in 1 .. levels /\ (n + 1) - 1 = n
          /\ l + n < Levels
        BY <1>3, <1>4, <1>5, <1>6, LevelsAssumption
    <2>2. Sound(h[n]) /\ h[n].level = l + n
        BY <1>6, <2>1
    <2>3. h[n + 1] = LevelUp(h[n])
        BY <1>5, <2>1
    <2>4. Sound(LevelUp(h[n])) /\ LevelUp(h[n]).level = h[n].level + 1
        BY <2>1, <2>2, LevelUpSound
    <2> QED BY <2>1, <2>2, <2>3, <2>4
<1>9. \A n \in Nat : n \in D
    BY <1>7, <1>8, AllNumbers
<1>10. Sound(h[levels])
    BY <1>5, <1>6, <1>9
<1> QED BY <1>3, <1>10

\* A row and a column are set by equipment and the like.
LEMMA SetPropertyValueSound ==
    ASSUME Sound(player), NEW g \in Groups, NEW c \in Cols, NEW v \in Values,
           SetPropertyValue(g, c, v)
    PROVE  Sound(player')
<1>1. PICK u : u = SetUsed(player, g)
    OBVIOUS
<1>2. Sound(u)
    BY <1>1, SetUsedSound
<1>3. v \in Nat
    BY ValuesAssumption
<1>4. Sound(SetCell(u, g, c, v))
    BY <1>2, <1>3, SetCellSound
<1> QED BY <1>1, <1>4 DEF SetPropertyValue

\* HP goes up and down between nothing and MAXHP.
LEMMA HPSound ==
    ASSUME Sound(player), NEW v \in Values \ {0}, AddHP(v) \/ DamageHP(v) \/ ConsumeHP(v)
    PROVE  Sound(player')
<1>1. PICK hp \in Nat : hp = player.hp
    BY Fields DEF Sound
<1>2. PICK max \in Nat : max = player.properties[MaxHpCol]
    <2>1. player.properties \in [Cols -> Nat]
        BY Fields DEF Sound
    <2> QED BY <2>1, ColsAssumption
<1>3. hp <= max /\ v \in Nat
    BY <1>1, <1>2, ValuesAssumption DEF Sound, HpFits
<1>4. \A n \in Nat : n <= max => Sound(SetHP(player, n))
    BY <1>2, SetHPSound
<1>5. CASE AddHP(v)
    <2>1. PICK n \in Nat : n = IF hp + v > max THEN max ELSE hp + v
        BY <1>3
    <2>2. player' = SetHP(player, n) /\ n <= max
        BY <1>1, <1>2, <1>3, <1>5, <2>1 DEF AddHP
    <2> QED BY <1>4, <2>2
<1>6. CASE DamageHP(v)
    <2>1. PICK n \in Nat : n = IF hp >= v THEN hp - v ELSE 0
        <3>1. hp >= v => hp - v \in Nat
            BY <1>3
        <3> QED BY <3>1
    <2>2. player' = SetHP(player, n) /\ n <= max
        BY <1>1, <1>3, <1>6, <2>1 DEF DamageHP
    <2> QED BY <1>4, <2>2
<1>7. CASE ConsumeHP(v)
    <2>1. PICK n \in Nat : n = hp - v /\ hp >= v
        BY <1>1, <1>3, <1>7 DEF ConsumeHP
    <2>2. player' = SetHP(player, n) /\ n <= max
        BY <1>1, <1>3, <1>7, <2>1 DEF ConsumeHP
    <2> QED BY <1>4, <2>2
<1> QED BY <1>5, <1>6, <1>7

\* A game master's client changes the record.
LEMMA MasterSound ==
    ASSUME Sound(player), NEW g \in Groups,
           \/ \E row \in Row : OnClientAddRowProcess(g, row)
           \/ OnClientRemoveRowProcess(g)
           \/ \E c \in Cols, v \in Values : OnClientRecordIntProcess(g, c, v)
    PROVE  Sound(player')
<1>1. \A row \in Row : row \in [Cols -> Nat]
    BY ValuesAssumption DEF Row
<1>2. CASE \E row \in Row : OnClientAddRowProcess(g, row)
    BY <1>1, <1>2, AddRowSound DEF OnClientAddRowProcess
<1>3. CASE OnClientRemoveRowProcess(g)
    BY <1>3, RemoveSound DEF OnClientRemoveRowProcess
<1>4. CASE \E c \in Cols, v \in Values : OnClientRecordIntProcess(g, c, v)
    <2>1. PICK c \in Cols, v \in Values : player' = SetCell(player, g, c, v)
        BY <1>4 DEF OnClientRecordIntProcess
    <2>2. v \in Nat
        BY ValuesAssumption
    <2> QED BY <2>1, <2>2, SetCellSound
<1> QED BY <1>2, <1>3, <1>4

\* What a client is sent when it comes is a view, and is right.
LEMMA SnapshotRight ==
    ASSUME NEW w, w.used \in SUBSET Groups, w.data \in [Groups -> [Cols -> Nat]],
           w.properties \in [Cols -> Nat], w.hp \in Nat
    PROVE  /\ Snapshot(w) \in View
           /\ Snapshot(w).properties = w.properties /\ Snapshot(w).hp = w.hp
           /\ \A g \in Groups :
                  Snapshot(w).rows[g] = IF g \in w.used THEN w.data[g] ELSE NoRow
BY DEF Snapshot, View

\* A client that comes shows what it was sent, and one that leaves shows nothing.
LEMMA WatchersSound ==
    ASSUME Sound(player), NEW c \in Clients, WatcherEnters(c) \/ WatcherLeaves(c)
    PROVE  Sound(player')
<1>1. PICK w \in PlayerData : w = player
    BY DEF Sound
<1>2. PICK view \in View \cup {NoView} :
          /\ view = IF WatcherEnters(c) THEN Snapshot(w) ELSE NoView
          /\ view # NoView => /\ view.properties = w.properties /\ view.hp = w.hp
                              /\ \A g \in Groups :
                                     view.rows[g] = IF g \in w.used THEN w.data[g] ELSE NoRow
    BY Fields, SnapshotRight
<1>3. PICK told : told = IF WatcherEnters(c) THEN w.untold
                         ELSE {x \in w.untold : x[1] # c}
    OBVIOUS
<1>4. PICK shown : shown = [w.shown EXCEPT ![c] = view]
    OBVIOUS
<1>5. /\ shown \in [Clients -> View \cup {NoView}] /\ shown[c] = view
      /\ \A x \in Clients : x # c => shown[x] = w.shown[x]
    BY <1>4, Fields
<1>6. told \in SUBSET (Clients \X Groups)
    BY <1>3, Fields
<1>7. PICK r : r = player'
    OBVIOUS
<1>8. r = [w EXCEPT !.shown = shown, !.untold = told]
    <2>1. CASE WatcherEnters(c)
        <3>1. r = [w EXCEPT !.shown = shown] /\ told = w.untold
            BY <1>1, <1>2, <1>3, <1>4, <1>7, <2>1 DEF WatcherEnters
        <3> QED BY <3>1, Fields DEF PlayerData
    <2>2. CASE ~WatcherEnters(c)
        BY <1>1, <1>2, <1>3, <1>4, <1>7, <2>2 DEF WatcherLeaves
    <2> QED BY <2>1, <2>2
<1>9. /\ r.used = w.used /\ r.data = w.data /\ r.level = w.level /\ r.untold = told
      /\ r.properties = w.properties /\ r.unsummed = w.unsummed /\ r.hp = w.hp
      /\ r.shown = shown /\ r \in PlayerData
    BY <1>5, <1>6, <1>8 DEF PlayerData
<1>10. Sound(w)
    BY <1>1
<1>11. Summed(r, Cols \ r.unsummed) /\ HpFits(r)
    <2>1. \A d \in Cols : SumOf(r, d) = SumOf(w, d)
        BY <1>9, SumsOfRows
    <2> QED BY <1>9, <1>10, <2>1 DEF Sound, Summed, HpFits
<1>12. ValuesShown(r)
    BY <1>2, <1>5, <1>9, <1>10 DEF Sound, ValuesShown
<1>13. RowsShown(r, Groups)
    <2> SUFFICES ASSUME NEW x \in Clients, shown[x] # NoView,
                        NEW g \in Groups, <<x, g>> \notin told
                 PROVE  shown[x].rows[g] = IF g \in w.used THEN w.data[g] ELSE NoRow
        BY <1>9 DEF RowsShown
    <2>1. CASE x = c
        BY <1>2, <1>5, <2>1
    <2>2. CASE x # c
        <3>1. <<x, g>> \notin w.untold
            BY <1>3, <2>2
        <3> QED BY <1>5, <1>10, <2>2, <3>1 DEF Sound, RowsShown
    <2> QED BY <2>1, <2>2
<1> QED BY <1>7, <1>9, <1>11, <1>12, <1>13 DEF Sound

\* The inductive invariant.
PlayerSound == Sound(player)

\* At the start only the level's row counts, and it is the sum.
LEMMA InitSound == Init => PlayerSound
<1> SUFFICES ASSUME Init PROVE Sound(player)
    BY DEF PlayerSound
<1>1. 1 \in 1 .. Levels
    BY LevelsAssumption
<1>2. PICK base \in [Cols -> Nat] : base = BaseValues[1]
    BY <1>1, LevelsAssumption
<1>3. PICK data : data = [r \in Groups |-> IF r = JobLevel THEN base ELSE [c \in Cols |-> 0]]
    OBVIOUS
<1>4. /\ data \in [Groups -> [Cols -> Nat]]
      /\ \A c \in Cols : \A g \in Groups : data[g][c] = IF g = JobLevel THEN base[c] ELSE 0
    BY <1>3
<1>5. PICK new : new =
          [used |-> Groups, data |-> data, properties |-> base, level |-> 1,
           hp |-> base[MaxHpCol], shown |-> [c \in Clients |-> NoView],
           untold |-> {}, unsummed |-> {}]
    OBVIOUS
<1>6. PICK view : view = Snapshot(new)
    OBVIOUS
<1>7. /\ view \in View /\ view.properties = base /\ view.hp = base[MaxHpCol]
      /\ \A g \in Groups : view.rows[g] = data[g]
    <2>1. base[MaxHpCol] \in Nat
        BY ColsAssumption
    <2> QED BY <1>2, <1>4, <1>5, <1>6, <2>1, SnapshotRight
<1>8. PICK shown : shown = [c \in Clients |-> IF c = Self THEN view ELSE NoView]
    OBVIOUS
<1>9. shown \in [Clients -> View \cup {NoView}]
    BY <1>7, <1>8
<1>10. PICK w : w =
          [used |-> Groups, data |-> data, properties |-> base, level |-> 1,
           hp |-> base[MaxHpCol], shown |-> shown, untold |-> {}, unsummed |-> {}]
    OBVIOUS
<1>11. player = w
    <2>1. player = [new EXCEPT !.shown[Self] = view]
        BY <1>2, <1>3, <1>5, <1>6 DEF Init
    <2>2. [[c \in Clients |-> NoView] EXCEPT ![Self] = view] = shown
        BY <1>8
    <2> QED BY <1>5, <1>10, <2>1, <2>2
<1>12. w \in PlayerData
    <2>1. base[MaxHpCol] \in Nat
        BY ColsAssumption
    <2> QED BY <1>1, <1>4, <1>9, <1>10, <2>1 DEF PlayerData
<1>13. Summed(w, Cols \ w.unsummed)
    <2> SUFFICES ASSUME NEW c \in Cols PROVE base[c] = SumOf(w, c)
        BY <1>10 DEF Summed
    <2>1. PICK f : f = [g \in Groups |-> data[g][c]]
        OBVIOUS
    <2>2. /\ f \in [Groups -> Nat] /\ f[JobLevel] = base[c]
          /\ \A g \in Groups : g # JobLevel => f[g] = 0
        BY <1>4, <2>1, GroupsAssumption
    <2>3. SumFunction(f) = base[c]
        BY <2>2, SumOfOne, GroupsAssumption
    <2> QED BY <1>10, <2>1, <2>3 DEF SumOf
<1>14. HpFits(w)
    <2>1. base[MaxHpCol] \in Nat
        BY ColsAssumption
    <2> QED BY <1>10, <2>1 DEF HpFits
<1>15. ValuesShown(w) /\ RowsShown(w, Groups)
    BY <1>7, <1>8, <1>10 DEF ValuesShown, RowsShown
<1> QED BY <1>11, <1>12, <1>13, <1>14, <1>15 DEF Sound

\* Every step keeps all of it.
LEMMA StepSound == PlayerSound /\ [Next]_player => PlayerSound'
<1> SUFFICES ASSUME Sound(player), [Next]_player PROVE Sound(player')
    BY DEF PlayerSound
<1>1. CASE \E g \in Groups, c \in Cols, v \in Values : SetPropertyValue(g, c, v)
    BY <1>1, SetPropertyValueSound
<1>2. CASE \E levels \in 1 .. Levels : AddExp(levels)
    BY <1>2, AddExpSound
<1>3. CASE \E v \in Values \ {0} : AddHP(v) \/ DamageHP(v) \/ ConsumeHP(v)
    BY <1>3, HPSound
<1>4. CASE \/ \E r \in Groups, row \in Row : OnClientAddRowProcess(r, row)
           \/ \E r \in Groups : OnClientRemoveRowProcess(r)
           \/ \E r \in Groups, c \in Cols, v \in Values : OnClientRecordIntProcess(r, c, v)
    BY <1>4, MasterSound
<1>5. CASE \E c \in Clients : WatcherEnters(c) \/ WatcherLeaves(c)
    BY <1>5, WatchersSound
<1>6. CASE UNCHANGED player
    BY <1>6
<1> QED BY <1>1, <1>2, <1>3, <1>4, <1>5, <1>6 DEF Next

\* The player's data keeps its types: no chain of callbacks takes HP below nothing
\* or leaves a client half a view.
THEOREM TypesRight == Spec => []TypeOK
<1>1. PlayerSound => TypeOK
    BY DEF PlayerSound, Sound, PlayerData, TypeOK
<1> QED BY <1>1, InitSound, StepSound, PTL DEF Spec

\* NFPropertyModule's values are the sums over the record, and HP is within MAXHP,
\* whatever levels, equipment, healing and a game master do.
THEOREM SumsFollow == Spec => []ValuesFollowTheRecord
<1>1. PlayerSound => ValuesFollowTheRecord
    BY DEF PlayerSound, Sound, Summed, HpFits, ValuesFollowTheRecord
<1> QED BY <1>1, InitSound, StepSound, PTL DEF Spec

\* NFAutoBroadcastModule keeps what clients show up to date, for any clients.
THEOREM ClientsFollow == Spec => []ClientsShowTheObject
<1>1. PlayerSound => ClientsShowTheObject
    BY DEF PlayerSound, Sound, ValuesShown, RowsShown, ClientsShowTheObject, Snapshot
<1> QED BY <1>1, InitSound, StepSound, PTL DEF Spec
=================================================================================
