------------------------ MODULE CommandIntakeProofs ------------------------
(***************************************************************************)
(* What a command is reported to have done is in force and on flash, for   *)
(* every set of commands, updates and limits and every number of faults; a *)
(* halt that was accepted is the last command; every command is answered,  *)
(* and executed once while its id is remembered; a soil session that was   *)
(* left alone ends with the sensor at the reference.                       *)
(***************************************************************************)
EXTENDS CommandIntake, FiniteSetTheorems, WellFoundedInduction, TLAPS

-----------------------------------------------------------------------------
(* Numbers.                                                                *)
(* Induction, with the property as the set of the numbers that have it.    *)
LEMMA SetInduction ==
  ASSUME NEW S, 0 \in S, \A n \in Nat : n \in S => n + 1 \in S
  PROVE  \A n \in Nat : n \in S
<1> DEFINE R == OpToRel(<, Nat)
           T == Nat \ S
<1>1. IsWellFoundedOn(R, Nat)
  BY NatLessThanWellFounded
<1>2. \A a, b \in Nat : a < b => <<a, b>> \in R
  BY DEF OpToRel
<1> HIDE DEF R
<1> SUFFICES ASSUME T # {} PROVE FALSE
  OBVIOUS
<1>3. PICK y \in T : \A z \in T : ~(<<z, y>> \in R)
  BY <1>1, WFMin
<1>4. y # 0 /\ y - 1 \in Nat /\ y - 1 < y /\ (y - 1) + 1 = y
  BY <1>3
<1>5. y - 1 \notin T
  BY <1>2, <1>3, <1>4
<1> QED BY <1>3, <1>4, <1>5

(* Of a range the fold takes the last index first.                         *)
LEMMA MaxOfRange ==
  ASSUME NEW n \in Nat, NEW s \in SUBSET (1..n), n \in s
  PROVE  Max(s) = n
<1>1. n \in s /\ \A y \in s : n >= y
  OBVIOUS
<1>2. Max(s) \in s /\ \A y \in s : Max(s) >= y
  BY <1>1, Zenon DEF Max
<1>3. Max(s) \in 1..n
  BY <1>2
<1>4. Max(s) >= n /\ n >= Max(s)
  BY <1>1, <1>2
<1> QED BY <1>3, <1>4

-----------------------------------------------------------------------------
(* The folds of the module, element by element: the recursive function in  *)
(* the definition of each exists, and its values are the steps.            *)
Merge(old, new) == FoldLeft(Added, old, new)
AddedFold(g, n, old, new) ==
  g = [s \in SUBSET (1..n) |-> IF s = {} THEN old ELSE Added(g[s \ {Max(s)}], new[Max(s)])]

LEMMA AddedExists == \A old, new : \A n \in Nat : \E g : AddedFold(g, n, old, new)
<1> SUFFICES ASSUME NEW old, NEW new PROVE \A n \in Nat : \E g : AddedFold(g, n, old, new)
  OBVIOUS
<1> DEFINE S == {n \in Nat : \E g : AddedFold(g, n, old, new)}
<1>1. 0 \in S
  <2>1. AddedFold([s \in SUBSET (1..0) |-> old], 0, old, new)
    BY DEF AddedFold
  <2> QED BY <2>1
<1>2. ASSUME NEW n \in Nat, n \in S PROVE n + 1 \in S
  <2>1. PICK g : AddedFold(g, n, old, new)
    BY <1>2
  <2> DEFINE h == [s \in SUBSET (1..n+1) |->
                    IF n + 1 \in s THEN Added(g[s \ {n + 1}], new[n + 1]) ELSE g[s]]
  <2>2. ASSUME NEW s \in SUBSET (1..n+1)
        PROVE  h[s] = IF s = {} THEN old ELSE Added(h[s \ {Max(s)}], new[Max(s)])
    <3>1. CASE n + 1 \in s
      <4>1. Max(s) = n + 1 /\ s \ {n + 1} \in SUBSET (1..n)
        BY <3>1, MaxOfRange
      <4>2. h[s] = Added(g[s \ {n + 1}], new[n + 1]) /\ h[s \ {n + 1}] = g[s \ {n + 1}]
        BY <3>1, <4>1
      <4> QED BY <3>1, <4>1, <4>2
    <3>2. CASE n + 1 \notin s
      <4>1. s \subseteq 1..n
        BY <3>2
      <4>2. s \ {Max(s)} \subseteq s
        OBVIOUS
      <4>3. s \in SUBSET (1..n) /\ s \ {Max(s)} \in SUBSET (1..n) /\ n + 1 \notin s \ {Max(s)}
        BY <3>2, <4>1, <4>2
      <4> QED BY <2>1, <3>2, <4>3 DEF AddedFold
    <3> QED BY <3>1, <3>2
  <2>3. AddedFold(h, n + 1, old, new)
    BY <2>2 DEF AddedFold
  <2> HIDE DEF h
  <2> QED BY <2>3
<1> HIDE DEF S
<1>3. \A n \in Nat : n \in S
  BY <1>1, <1>2, SetInduction
<1> QED BY <1>3 DEF S

LEMMA AddedSteps ==
  ASSUME NEW old, NEW E, NEW new \in Seq(E)
  PROVE  \E h : /\ h[0] = old /\ \A k \in 1..Len(new) : h[k] = Added(h[k - 1], new[k])
              /\ Merge(old, new) = h[Len(new)]
<1> DEFINE f == CHOOSE g : AddedFold(g, Len(new), old, new)
           h == [k \in 0..Len(new) |-> f[1..k]]
<1>1. DOMAIN new = 1..Len(new) /\ Len(new) \in Nat
  OBVIOUS
<1>2. Merge(old, new) = f[1..Len(new)]
  BY <1>1, Zenon DEF Merge, FoldLeft, MapThenFoldSet, AddedFold
<1>3. AddedFold(f, Len(new), old, new)
  BY <1>1, AddedExists
<1> HIDE DEF f
<1>4. f[{}] = old
  BY <1>3 DEF AddedFold
<1>5. ASSUME NEW k \in 1..Len(new) PROVE f[1..k] = Added(f[1..(k - 1)], new[k])
  <2>1. k \in 1..k /\ (1..k) \ {k} = 1..(k - 1) /\ 1..k \in SUBSET (1..Len(new))
    OBVIOUS
  <2>2. Max(1..k) = k
    BY <2>1, MaxOfRange
  <2>3. f[1..k] = Added(f[(1..k) \ {Max(1..k)}], new[Max(1..k)])
    BY <1>1, <1>3, <2>1 DEF AddedFold
  <2> QED BY <2>1, <2>2, <2>3
<1>6. h[0] = old /\ (\A k \in 1..Len(new) : h[k] = Added(h[k - 1], new[k])) /\ h[Len(new)] = f[1..Len(new)]
  BY <1>4, <1>5
<1> HIDE DEF h
<1> QED BY <1>2, <1>6

KnownFold(g, n, new) ==
  g = [s \in SUBSET (1..n) |-> IF s = {} THEN <<>> ELSE WithKnown(g[s \ {Max(s)}], new[Max(s)])]

LEMMA KnownExists == \A new : \A n \in Nat : \E g : KnownFold(g, n, new)
<1> SUFFICES ASSUME NEW new PROVE \A n \in Nat : \E g : KnownFold(g, n, new)
  OBVIOUS
<1> DEFINE S == {n \in Nat : \E g : KnownFold(g, n, new)}
<1>1. 0 \in S
  <2>1. KnownFold([s \in SUBSET (1..0) |-> <<>>], 0, new)
    BY DEF KnownFold
  <2> QED BY <2>1
<1>2. ASSUME NEW n \in Nat, n \in S PROVE n + 1 \in S
  <2>1. PICK g : KnownFold(g, n, new)
    BY <1>2
  <2> DEFINE h == [s \in SUBSET (1..n+1) |->
                    IF n + 1 \in s THEN WithKnown(g[s \ {n + 1}], new[n + 1]) ELSE g[s]]
  <2>2. ASSUME NEW s \in SUBSET (1..n+1)
        PROVE  h[s] = IF s = {} THEN <<>> ELSE WithKnown(h[s \ {Max(s)}], new[Max(s)])
    <3>1. CASE n + 1 \in s
      <4>1. Max(s) = n + 1 /\ s \ {n + 1} \in SUBSET (1..n)
        BY <3>1, MaxOfRange
      <4>2. h[s] = WithKnown(g[s \ {n + 1}], new[n + 1]) /\ h[s \ {n + 1}] = g[s \ {n + 1}]
        BY <3>1, <4>1
      <4> QED BY <3>1, <4>1, <4>2
    <3>2. CASE n + 1 \notin s
      <4>1. s \subseteq 1..n
        BY <3>2
      <4>2. s \ {Max(s)} \subseteq s
        OBVIOUS
      <4>3. s \in SUBSET (1..n) /\ s \ {Max(s)} \in SUBSET (1..n) /\ n + 1 \notin s \ {Max(s)}
        BY <3>2, <4>1, <4>2
      <4> QED BY <2>1, <3>2, <4>3 DEF KnownFold
    <3> QED BY <3>1, <3>2
  <2>3. KnownFold(h, n + 1, new)
    BY <2>2 DEF KnownFold
  <2> HIDE DEF h
  <2> QED BY <2>3
<1> HIDE DEF S
<1>3. \A n \in Nat : n \in S
  BY <1>1, <1>2, SetInduction
<1> QED BY <1>3 DEF S

LEMMA KnownSteps ==
  ASSUME NEW E, NEW new \in Seq(E)
  PROVE  \E h : /\ h[0] = <<>> /\ \A k \in 1..Len(new) : h[k] = WithKnown(h[k - 1], new[k])
              /\ FoldLeft(WithKnown, <<>>, new) = h[Len(new)]
<1> DEFINE f == CHOOSE g : KnownFold(g, Len(new), new)
           h == [k \in 0..Len(new) |-> f[1..k]]
<1>1. DOMAIN new = 1..Len(new) /\ Len(new) \in Nat
  OBVIOUS
<1>2. FoldLeft(WithKnown, <<>>, new) = f[1..Len(new)]
  BY <1>1, Zenon DEF FoldLeft, MapThenFoldSet, KnownFold
<1>3. KnownFold(f, Len(new), new)
  BY <1>1, KnownExists
<1> HIDE DEF f
<1>4. f[{}] = <<>>
  BY <1>3 DEF KnownFold
<1>5. ASSUME NEW k \in 1..Len(new) PROVE f[1..k] = WithKnown(f[1..(k - 1)], new[k])
  <2>1. k \in 1..k /\ (1..k) \ {k} = 1..(k - 1) /\ 1..k \in SUBSET (1..Len(new))
    OBVIOUS
  <2>2. Max(1..k) = k
    BY <2>1, MaxOfRange
  <2>3. f[1..k] = WithKnown(f[(1..k) \ {Max(1..k)}], new[Max(1..k)])
    BY <1>1, <1>3, <2>1 DEF KnownFold
  <2> QED BY <2>1, <2>2, <2>3
<1>6. /\ h[0] = <<>> /\ h[Len(new)] = f[1..Len(new)]
      /\ \A k \in 1..Len(new) : h[k] = WithKnown(h[k - 1], new[k])
  BY <1>4, <1>5
<1> HIDE DEF h
<1> QED BY <1>2, <1>6

SumFold(g, n, new) ==
  g = [s \in SUBSET (1..n) |-> IF s = {} THEN 0 ELSE g[s \ {Max(s)}] + new[Max(s)]]

LEMMA SumExists == \A new : \A n \in Nat : \E g : SumFold(g, n, new)
<1> SUFFICES ASSUME NEW new PROVE \A n \in Nat : \E g : SumFold(g, n, new)
  OBVIOUS
<1> DEFINE S == {n \in Nat : \E g : SumFold(g, n, new)}
<1>1. 0 \in S
  <2>1. SumFold([s \in SUBSET (1..0) |-> 0], 0, new)
    BY DEF SumFold
  <2> QED BY <2>1
<1>2. ASSUME NEW n \in Nat, n \in S PROVE n + 1 \in S
  <2>1. PICK g : SumFold(g, n, new)
    BY <1>2
  <2> DEFINE h == [s \in SUBSET (1..n+1) |->
                    IF n + 1 \in s THEN g[s \ {n + 1}] + new[n + 1] ELSE g[s]]
  <2>2. ASSUME NEW s \in SUBSET (1..n+1)
        PROVE  h[s] = IF s = {} THEN 0 ELSE h[s \ {Max(s)}] + new[Max(s)]
    <3>1. CASE n + 1 \in s
      <4>1. Max(s) = n + 1 /\ s \ {n + 1} \in SUBSET (1..n)
        BY <3>1, MaxOfRange
      <4>2. h[s] = g[s \ {n + 1}] + new[n + 1] /\ h[s \ {n + 1}] = g[s \ {n + 1}]
        BY <3>1, <4>1
      <4> QED BY <3>1, <4>1, <4>2
    <3>2. CASE n + 1 \notin s
      <4>1. s \subseteq 1..n
        BY <3>2
      <4>2. s \ {Max(s)} \subseteq s
        OBVIOUS
      <4>3. s \in SUBSET (1..n) /\ s \ {Max(s)} \in SUBSET (1..n) /\ n + 1 \notin s \ {Max(s)}
        BY <3>2, <4>1, <4>2
      <4> QED BY <2>1, <3>2, <4>3 DEF SumFold
    <3> QED BY <3>1, <3>2
  <2>3. SumFold(h, n + 1, new)
    BY <2>2 DEF SumFold
  <2> HIDE DEF h
  <2> QED BY <2>3
<1> HIDE DEF S
<1>3. \A n \in Nat : n \in S
  BY <1>1, <1>2, SetInduction
<1> QED BY <1>3 DEF S

LEMMA SumSteps ==
  ASSUME NEW E, NEW new \in Seq(E)
  PROVE  \E h : /\ h[0] = 0 /\ \A k \in 1..Len(new) : h[k] = h[k - 1] + new[k]
              /\ FoldLeft(+, 0, new) = h[Len(new)]
<1> DEFINE f == CHOOSE g : SumFold(g, Len(new), new)
           h == [k \in 0..Len(new) |-> f[1..k]]
<1>1. DOMAIN new = 1..Len(new) /\ Len(new) \in Nat
  OBVIOUS
<1>2. FoldLeft(+, 0, new) = f[1..Len(new)]
  BY <1>1, Zenon DEF FoldLeft, MapThenFoldSet, SumFold
<1>3. SumFold(f, Len(new), new)
  BY <1>1, SumExists
<1> HIDE DEF f
<1>4. f[{}] = 0
  BY <1>3 DEF SumFold
<1>5. ASSUME NEW k \in 1..Len(new) PROVE f[1..k] = f[1..(k - 1)] + new[k]
  <2>1. k \in 1..k /\ (1..k) \ {k} = 1..(k - 1) /\ 1..k \in SUBSET (1..Len(new))
    OBVIOUS
  <2>2. Max(1..k) = k
    BY <2>1, MaxOfRange
  <2>3. f[1..k] = f[(1..k) \ {Max(1..k)}] + new[Max(1..k)]
    BY <1>1, <1>3, <2>1 DEF SumFold
  <2> QED BY <2>1, <2>2, <2>3
<1>6. h[0] = 0 /\ (\A k \in 1..Len(new) : h[k] = h[k - 1] + new[k]) /\ h[Len(new)] = f[1..Len(new)]
  BY <1>4, <1>5
<1> HIDE DEF h
<1> QED BY <1>2, <1>6

(* A nonempty set of indices has a largest one.                            *)
LEMMA Largest ==
  ASSUME NEW n \in Nat, NEW T \in SUBSET (1..n), T # {}
  PROVE  \E m \in T : \A y \in T : y <= m
<1> DEFINE S == {k \in Nat : \A U \in SUBSET (1..k) : U # {} => \E m \in U : \A y \in U : y <= m}
<1>1. 0 \in S
  <2>1. 1..0 = {}
    OBVIOUS
  <2> QED BY <2>1
<1>2. ASSUME NEW k \in Nat, k \in S PROVE k + 1 \in S
  <2> SUFFICES ASSUME NEW U \in SUBSET (1..k+1), U # {} PROVE \E m \in U : \A y \in U : y <= m
    OBVIOUS
  <2>1. CASE k + 1 \in U
    BY <2>1
  <2>2. CASE k + 1 \notin U
    <3>1. U \in SUBSET (1..k)
      BY <2>2
    <3> QED BY <1>2, <3>1
  <2> QED BY <2>1, <2>2
<1>3. \A k \in Nat : k \in S
  <2> HIDE DEF S
  <2> QED BY <1>1, <1>2, SetInduction
<1> QED BY <1>3

-----------------------------------------------------------------------------
(* Updates: what a key gets is a value of one of them.                     *)
Updating == {u \in (Keys \cup {Unknown}) \X Values : u # <<Ph, Poison>>}

LEMMA LastOfOne ==
  ASSUME NEW us \in Seq(Updating), NEW k \in KeysOf(us)
  PROVE  \E i \in DOMAIN us : us[i][1] = k /\ LastOf(us, k) = us[i][2]
<1> DEFINE T == {i \in DOMAIN us : us[i][1] = k}
<1>1. T \in SUBSET (1..Len(us)) /\ T # {} /\ Len(us) \in Nat
  BY DEF KeysOf
<1>2. PICK m \in T : \A j \in T : j <= m
  <2> HIDE DEF T
  <2> QED BY <1>1, Largest
<1>3. m \in DOMAIN us /\ us[m][1] = k /\ \A j \in DOMAIN us : us[j][1] = k => j <= m
  BY <1>2
<1> QED BY <1>3, Zenon DEF LastOf

LEMMA PutTyped ==
  ASSUME NEW us \in Seq(Updating), NEW c \in Settings
  PROVE  /\ Put(c, us) \in Settings
         /\ Ph \in Keys => Put(c, us)[Ph] = IF Ph \in KeysOf(us) THEN LastOf(us, Ph) ELSE c[Ph]
         /\ Ph \in KeysOf(us) => LastOf(us, Ph) \in Int
<1>1. ASSUME NEW k \in KeysOf(us) PROVE LastOf(us, k) \in Values /\ (k = Ph => LastOf(us, k) # Poison)
  <2>1. PICK i \in DOMAIN us : us[i][1] = k /\ LastOf(us, k) = us[i][2]
    BY LastOfOne
  <2>2. us[i] \in Updating
    OBVIOUS
  <2> QED BY <2>1, <2>2 DEF Updating
<1>2. Ph \in KeysOf(us) => LastOf(us, Ph) \in Int
  BY <1>1 DEF Values
<1>3. Ph \in Keys
  BY IntakeAssumption
<1>4. Put(c, us) = [k \in Keys |-> IF k \in KeysOf(us) THEN LastOf(us, k) ELSE c[k]]
  BY DEF Put, Settings
<1>5. Put(c, us) \in [Keys -> Values]
  BY <1>1, <1>4 DEF Settings
<1>6. Put(c, us)[Ph] = IF Ph \in KeysOf(us) THEN LastOf(us, Ph) ELSE c[Ph]
  BY <1>3, <1>4
<1> QED BY <1>2, <1>5, <1>6 DEF Settings

LEMMA InForceTyped ==
  ASSUME NEW us \in Seq(Updating), NEW c \in Settings
  PROVE  /\ InForce(c, us) \in Settings
         /\ Ph \notin KeysOf(us) => InForce(c, us)[Ph] = c[Ph]
<1>1. Put(c, us) \in Settings /\ Ph \in Keys
  BY PutTyped, IntakeAssumption
<1>2. /\ Put(c, us) = [k \in Keys |-> IF k \in KeysOf(us) THEN LastOf(us, k) ELSE c[k]]
      /\ InForce(c, us) = [k \in Keys |-> IF k \in KeysOf(us) \ OnlyStored[path] THEN LastOf(us, k) ELSE c[k]]
  BY DEF Put, InForce, Settings
<1>3. ASSUME NEW k \in Keys PROVE InForce(c, us)[k] \in {Put(c, us)[k], c[k]}
  BY <1>2
<1>4. InForce(c, us) \in [Keys -> Values] /\ InForce(c, us)[Ph] \in Int
  BY <1>1, <1>2, <1>3 DEF Settings
<1> QED BY <1>1, <1>2, <1>4 DEF Settings

LEMMA KnownTyped ==
  ASSUME NEW us \in Seq(Updating)
  PROVE  FoldLeft(WithKnown, <<>>, us) \in Seq(Updating)
<1>1. PICK h : /\ h[0] = <<>> /\ \A k \in 1..Len(us) : h[k] = WithKnown(h[k - 1], us[k])
               /\ FoldLeft(WithKnown, <<>>, us) = h[Len(us)]
  BY KnownSteps
<1> DEFINE S == {k \in Nat : k <= Len(us) => h[k] \in Seq(Updating)}
<1>2. 0 \in S
  <2>1. h[0] \in Seq(Updating)
    BY <1>1
  <2> QED BY <2>1
<1>3. ASSUME NEW k \in Nat, k \in S PROVE k + 1 \in S
  <2> SUFFICES ASSUME k + 1 <= Len(us) PROVE h[k + 1] \in Seq(Updating)
    OBVIOUS
  <2>1. h[k] \in Seq(Updating) /\ k + 1 \in 1..Len(us) /\ (k + 1) - 1 = k
    BY <1>3
  <2>2. h[k + 1] = WithKnown(h[k], us[k + 1]) /\ us[k + 1] \in Updating
    BY <1>1, <2>1
  <2> QED BY <2>1, <2>2 DEF WithKnown
<1>4. \A k \in Nat : k \in S
  <2> HIDE DEF S
  <2> QED BY <1>2, <1>3, SetInduction
<1> QED BY <1>1, <1>4

LEMMA UpdatesTyped ==
  ASSUME NEW m \in Messages
  PROVE  /\ Updates[m] \in Seq(Updating) /\ Known(m) \in Seq(Updating)
         /\ \A k \in 0..Len(Known(m)) : SubSeq(Known(m), 1, k) \in Seq(Updating)
<1>1. Updates[m] \in Seq(Update) /\ \A i \in DOMAIN Updates[m] : Updates[m][i] # <<Ph, Poison>>
  BY IntakeAssumption
<1>2. \A i \in 1..Len(Updates[m]) : Updates[m][i] \in Updating
  BY <1>1 DEF Update, Updating
<1>3. Updates[m] \in Seq(Updating)
  BY <1>1, <1>2
<1>4. Known(m) \in Seq(Updating)
  BY <1>3, KnownTyped, Zenon DEF Known
<1> QED BY <1>3, <1>4

-----------------------------------------------------------------------------
(* Samples: their sum is a number, and that of equal ones a multiple.      *)
LEMMA SumTyped ==
  ASSUME NEW s \in Seq(Int)
  PROVE  Sum(s) \in Int /\ \A v \in Int : (\A i \in 1..Len(s) : s[i] = v) => Sum(s) = Len(s) * v
<1>1. PICK h : /\ h[0] = 0 /\ \A k \in 1..Len(s) : h[k] = h[k - 1] + s[k]
               /\ Sum(s) = h[Len(s)]
  BY SumSteps DEF Sum
<1> DEFINE S == {k \in Nat : k <= Len(s) =>
                   h[k] \in Int /\ \A v \in Int : (\A i \in 1..Len(s) : s[i] = v) => h[k] = k * v}
<1>2. 0 \in S
  BY <1>1
<1>3. ASSUME NEW k \in Nat, k \in S PROVE k + 1 \in S
  <2> SUFFICES ASSUME k + 1 <= Len(s)
               PROVE  /\ h[k + 1] \in Int
                      /\ \A v \in Int : (\A i \in 1..Len(s) : s[i] = v) => h[k + 1] = (k + 1) * v
    OBVIOUS
  <2>1. k + 1 \in 1..Len(s) /\ (k + 1) - 1 = k /\ k <= Len(s) /\ s[k + 1] \in Int
    OBVIOUS
  <2>2. h[k] \in Int /\ \A v \in Int : (\A i \in 1..Len(s) : s[i] = v) => h[k] = k * v
    BY <1>3, <2>1
  <2>3. h[k + 1] = h[k] + s[k + 1]
    BY <1>1, <2>1
  <2>4. \A v \in Int : k * v + v = (k + 1) * v
    OBVIOUS
  <2>5. h[k + 1] \in Int
    BY <2>1, <2>2, <2>3
  <2>6. ASSUME NEW v \in Int, \A i \in 1..Len(s) : s[i] = v PROVE h[k + 1] = (k + 1) * v
    <3>1. h[k] = k * v /\ s[k + 1] = v
      BY <2>1, <2>2, <2>6
    <3> QED BY <2>3, <2>4, <3>1
  <2> QED BY <2>5, <2>6
<1>4. \A k \in Nat : k \in S
  <2> HIDE DEF S
  <2> QED BY <1>2, <1>3, SetInduction
<1>5. Len(s) \in Nat /\ Len(s) \in S
  BY <1>4
<1> QED BY <1>1, <1>5

LEMMA DivisionOfMultiple == \A n \in Nat \ {0}, v \in Int : (n * v) \div n = v
OBVIOUS

-----------------------------------------------------------------------------
(* handled_message_ids: each id once, the oldest forgotten first.          *)
Injective(s) == \A i, j \in DOMAIN s : s[i] = s[j] => i = j

LEMMA RangeIsFinite == ASSUME NEW E, NEW s \in Seq(E) PROVE IsFiniteSet(ToSet(s))
<1>1. DOMAIN s = 1..Len(s) /\ Len(s) \in Int /\ s \in [DOMAIN s -> ToSet(s)]
  BY DEF ToSet
<1>2. s \in Surjection(DOMAIN s, ToSet(s))
  BY <1>1 DEF Surjection, ToSet
<1>3. IsFiniteSet(1..Len(s))
  <2>1. 1 \in Int /\ Len(s) \in Int
    BY <1>1
  <2> QED BY <2>1, FS_Interval, Zenon
<1> QED BY <1>1, <1>2, <1>3, FS_Surjection

(* What the loop over the results leaves: the old ids, and behind them the *)
(* new ones in their order.                                                *)
Merged(old, new, k, s) ==
  /\ Injective(s) /\ Len(s) >= Len(old) /\ \A i \in 1..Len(old) : s[i] = old[i]
  /\ \A i \in 1..k : new[i] # NoId => new[i] \in ToSet(s)
  /\ \A j \in (Len(old) + 1)..Len(s) : \E i \in 1..k : s[j] = new[i]
  /\ \A j1, j2 \in (Len(old) + 1)..Len(s) : j1 < j2 =>
       \E i1, i2 \in 1..k : i1 < i2 /\ s[j1] = new[i1] /\ s[j2] = new[i2]

LEMMA AddedMerges ==
  ASSUME NEW E, NEW old \in Seq(E), NEW new \in Seq(E), NEW k \in 1..Len(new),
         NEW s \in Seq(E), Merged(old, new, k - 1, s)
  PROVE  Added(s, new[k]) \in Seq(E) /\ Merged(old, new, k, Added(s, new[k]))
<1> DEFINE x == new[k]
           t == Append(s, x)
<1>1. x \in E /\ k \in Nat /\ Len(old) \in Nat /\ Len(s) \in Nat
  OBVIOUS
<1>2. CASE x = NoId \/ x \in ToSet(s)
  BY <1>1, <1>2 DEF Added, Merged
<1>3. CASE x # NoId /\ x \notin ToSet(s)
  <2>1. /\ Added(s, x) = t /\ t \in Seq(E) /\ Len(t) = Len(s) + 1 /\ t[Len(s) + 1] = x
        /\ DOMAIN t = 1..Len(t) /\ DOMAIN s = 1..Len(s)
        /\ \A i \in 1..Len(s) : t[i] = s[i] /\ s[i] # x
    BY <1>1, <1>3 DEF Added, ToSet
  <2> HIDE DEF t
  <2>2. Injective(t)
    <3> SUFFICES ASSUME NEW i \in 1..Len(t), NEW j \in 1..Len(t), t[i] = t[j] PROVE i = j
      BY <2>1 DEF Injective
    <3>1. CASE i \in 1..Len(s) /\ j \in 1..Len(s)
      BY <2>1, <3>1 DEF Merged, Injective
    <3>2. \A n \in 1..Len(t) : t[n] = x => n \notin 1..Len(s)
      BY <2>1
    <3>3. \A n \in 1..Len(t) : n \in 1..Len(s) \/ n = Len(s) + 1
      BY <1>1, <2>1
    <3>4. CASE i = Len(s) + 1 \/ j = Len(s) + 1
      <4>1. t[i] = x /\ t[j] = x
        BY <2>1, <3>4
      <4> QED BY <3>2, <3>3, <4>1
    <3> QED BY <3>1, <3>3, <3>4
  <2>3. Len(t) >= Len(old) /\ \A i \in 1..Len(old) : t[i] = old[i]
    BY <1>1, <2>1 DEF Merged
  <2>4. ASSUME NEW i \in 1..k, new[i] # NoId PROVE new[i] \in ToSet(t)
    <3>1. \A j \in 1..Len(t) : t[j] \in ToSet(t)
      BY <2>1 DEF ToSet
    <3>2. CASE i = k
      BY <1>1, <2>1, <3>1, <3>2
    <3>3. CASE i # k
      <4>1. new[i] \in ToSet(s)
        BY <1>1, <2>4, <3>3 DEF Merged
      <4>2. PICK j \in 1..Len(s) : new[i] = s[j]
        BY <4>1 DEF ToSet
      <4> QED BY <1>1, <2>1, <3>1, <4>2
    <3> QED BY <3>2, <3>3
  <2>5. ASSUME NEW j \in (Len(old) + 1)..Len(t) PROVE \E i \in 1..k : t[j] = new[i]
    <3>1. CASE j = Len(s) + 1
      BY <1>1, <2>1, <3>1
    <3>2. CASE j # Len(s) + 1
      BY <1>1, <2>1, <2>5, <3>2 DEF Merged
    <3> QED BY <3>1, <3>2
  <2>6. ASSUME NEW j1 \in (Len(old) + 1)..Len(t), NEW j2 \in (Len(old) + 1)..Len(t), j1 < j2
        PROVE  \E i1, i2 \in 1..k : i1 < i2 /\ t[j1] = new[i1] /\ t[j2] = new[i2]
    <3>0. j1 \in (Len(old) + 1)..Len(s)
      BY <1>1, <2>1, <2>6
    <3>1. CASE j2 = Len(s) + 1
      <4>1. PICK i \in 1..(k - 1) : s[j1] = new[i]
        BY <3>0 DEF Merged
      <4>2. i \in 1..k /\ k \in 1..k /\ i < k /\ t[j1] = new[i] /\ t[j2] = new[k]
        BY <1>1, <2>1, <3>0, <3>1, <4>1
      <4> QED BY <4>2
    <3>2. CASE j2 # Len(s) + 1
      <4>1. j2 \in (Len(old) + 1)..Len(s)
        <5>1. j2 \in (Len(old) + 1)..(Len(s) + 1)
          BY <2>1
        <5> QED BY <1>1, <3>2, <5>1
      <4>2. PICK i1 \in 1..(k - 1), i2 \in 1..(k - 1) : i1 < i2 /\ s[j1] = new[i1] /\ s[j2] = new[i2]
        BY <2>6, <3>0, <4>1 DEF Merged
      <4>3. i1 \in 1..k /\ i2 \in 1..k /\ t[j1] = new[i1] /\ t[j2] = new[i2]
        BY <1>1, <2>1, <3>0, <4>1, <4>2
      <4> QED BY <4>2, <4>3
    <3> QED BY <3>1, <3>2
  <2> QED BY <2>1, <2>2, <2>3, <2>4, <2>5, <2>6 DEF Merged
<1> QED BY <1>2, <1>3

LEMMA AllMerged ==
  ASSUME NEW E, NEW old \in Seq(E), NEW new \in Seq(E), Injective(old)
  PROVE  /\ Merge(old, new) \in Seq(E)
         /\ Merged(old, new, Len(new), Merge(old, new))
<1>1. PICK h : /\ h[0] = old /\ \A k \in 1..Len(new) : h[k] = Added(h[k - 1], new[k])
               /\ Merge(old, new) = h[Len(new)]
  BY AddedSteps
<1> DEFINE S == {k \in Nat : k <= Len(new) => h[k] \in Seq(E) /\ Merged(old, new, k, h[k])}
<1>2. 0 \in S
  <2>1. h[0] \in Seq(E) /\ Merged(old, new, 0, h[0])
    BY <1>1 DEF Merged
  <2> QED BY <2>1
<1>3. ASSUME NEW k \in Nat, k \in S PROVE k + 1 \in S
  <2> SUFFICES ASSUME k + 1 <= Len(new) PROVE h[k + 1] \in Seq(E) /\ Merged(old, new, k + 1, h[k + 1])
    OBVIOUS
  <2>1. h[k] \in Seq(E) /\ Merged(old, new, k, h[k]) /\ k + 1 \in 1..Len(new) /\ (k + 1) - 1 = k
    BY <1>3
  <2>2. h[k + 1] = Added(h[k], new[k + 1])
    BY <1>1, <2>1
  <2> QED BY <2>1, <2>2, AddedMerges
<1>4. \A k \in Nat : k \in S
  <2> HIDE DEF S
  <2> QED BY <1>2, <1>3, SetInduction
<1>5. Len(new) \in Nat /\ Len(new) \in S
  BY <1>4
<1> QED BY <1>1, <1>5

(* What is behind an id then.                                              *)
LEMMA BehindMerged ==
  ASSUME NEW E, NEW old \in Seq(E), NEW new \in Seq(E), NEW s \in Seq(E), Merged(old, new, Len(new), s),
         NEW x
  PROVE  /\ x \in ToSet(old) => x \in ToSet(s) /\ Behind(s, x) \subseteq Behind(old, x) \cup ToSet(new)
         /\ x \notin ToSet(old) => Behind(s, x) \subseteq Behind(new, x)
         /\ x \notin Behind(s, x)
         /\ ToSet(s) \subseteq ToSet(old) \cup ToSet(new)
<1>1. Len(old) \in Nat /\ Len(s) \in Nat /\ DOMAIN s = 1..Len(s) /\ DOMAIN old = 1..Len(old)
      /\ DOMAIN new = 1..Len(new) /\ Len(s) >= Len(old)
  BY DEF Merged
<1>2. ASSUME NEW p \in 1..Len(old) PROVE p \in 1..Len(s) /\ s[p] = old[p]
  BY <1>1 DEF Merged
<1>3. ASSUME NEW j \in 1..Len(s) PROVE s[j] \in ToSet(old) \cup ToSet(new)
  <2>1. CASE j \in 1..Len(old)
    BY <1>1, <1>2, <2>1 DEF ToSet
  <2>2. CASE j \in (Len(old) + 1)..Len(s)
    BY <1>1, <2>2 DEF Merged, ToSet
  <2> QED BY <1>1, <2>1, <2>2
<1>4. ToSet(s) \subseteq ToSet(old) \cup ToSet(new)
  BY <1>1, <1>3 DEF ToSet
<1>5. ASSUME NEW y \in Behind(s, x)
      PROVE  \E j \in 1..Len(s) : y = s[j] /\ \E i \in 1..(j - 1) : s[i] = x
  BY <1>1 DEF Behind
<1>6. x \notin Behind(s, x)
  BY DEF Behind
<1>7. CASE x \in ToSet(old)
  <2>1. PICK p \in 1..Len(old) : x = old[p]
    BY <1>1, <1>7 DEF ToSet
  <2>2. x \in ToSet(s)
    BY <1>1, <1>2, <2>1 DEF ToSet
  <2>3. ASSUME NEW y \in Behind(s, x) PROVE y \in Behind(old, x) \cup ToSet(new)
    <3>1. PICK j \in 1..Len(s) : y = s[j] /\ \E i \in 1..(j - 1) : s[i] = x
      BY <1>5
    <3>2. PICK i \in 1..(j - 1) : s[i] = x
      BY <3>1
    <3>3. i = p
      <4>1. i \in DOMAIN s /\ p \in DOMAIN s /\ s[i] = s[p]
        BY <1>1, <1>2, <2>1, <3>2
      <4> QED BY <4>1 DEF Merged, Injective
    <3>4. CASE j <= Len(old)
      <4>1. y # x
        BY <1>6, <2>3
      <4> QED BY <1>1, <1>2, <2>1, <3>1, <3>3, <3>4, <4>1 DEF Behind
    <3>5. CASE j > Len(old)
      <4>1. j \in (Len(old) + 1)..Len(s)
        BY <1>1, <3>1, <3>5
      <4>2. PICK k \in 1..Len(new) : s[j] = new[k]
        BY <4>1 DEF Merged
      <4> QED BY <1>1, <3>1, <4>2 DEF ToSet
    <3>6. j <= Len(old) \/ j > Len(old)
      BY <1>1
    <3> QED BY <3>4, <3>5, <3>6
  <2> QED BY <1>4, <1>6, <1>7, <2>2, <2>3
<1>8. CASE x \notin ToSet(old)
  <2>1. ASSUME NEW y \in Behind(s, x) PROVE y \in Behind(new, x)
    <3>1. PICK j \in 1..Len(s) : y = s[j] /\ \E i \in 1..(j - 1) : s[i] = x
      BY <1>5
    <3>2. PICK i \in 1..(j - 1) : s[i] = x
      BY <3>1
    <3>3. i > Len(old)
      BY <1>1, <1>2, <1>8, <3>2 DEF ToSet
    <3>4. i \in (Len(old) + 1)..Len(s) /\ j \in (Len(old) + 1)..Len(s) /\ i < j
      BY <1>1, <3>2, <3>3
    <3>5. PICK i1 \in 1..Len(new), i2 \in 1..Len(new) : i1 < i2 /\ s[i] = new[i1] /\ s[j] = new[i2]
      BY <3>4 DEF Merged
    <3>6. i1 \in 1..(i2 - 1) /\ new[i1] = x /\ y = new[i2] /\ i2 \in DOMAIN new /\ y # x
      BY <1>1, <1>6, <2>1, <3>1, <3>2, <3>5
    <3> QED BY <3>6 DEF Behind
  <2> QED BY <1>4, <1>6, <1>8, <2>1
<1> QED BY <1>7, <1>8

LEMMA InBehind ==
  ASSUME NEW s, NEW x, NEW q \in DOMAIN s, NEW i \in 1..(q - 1), s[i] = x, s[q] # x
  PROVE  s[q] \in Behind(s, x)
BY Zenon DEF Behind

(* Only an id with enough others behind it is forgotten.                   *)
LEMMA NewestKeeps ==
  ASSUME NEW E, NEW s \in Seq(E), Injective(s), NEW n \in Nat \ {0}
  PROVE  /\ Newest(s, n) \in Seq(E) /\ Injective(Newest(s, n)) /\ Len(Newest(s, n)) <= n
         /\ ToSet(Newest(s, n)) \subseteq ToSet(s)
         /\ \A x : Behind(Newest(s, n), x) \subseteq Behind(s, x)
         /\ \A x \in ToSet(s) \ ToSet(Newest(s, n)) : \A B :
              IsFiniteSet(B) /\ Behind(s, x) \subseteq B => Cardinality(B) >= n
<1> DEFINE t == Newest(s, n)
           d == IF Len(s) <= n THEN 0 ELSE Len(s) - n
<1>1. /\ d \in Nat /\ t \in Seq(E) /\ Len(t) = Len(s) - d /\ Len(t) <= n /\ Len(s) \in Nat /\ Len(t) \in Nat
      /\ DOMAIN s = 1..Len(s) /\ DOMAIN t = 1..Len(t)
      /\ \A i \in 1..Len(t) : d + i \in 1..Len(s) /\ t[i] = s[d + i]
  BY DEF Newest
<1>2. d > 0 => Len(s) = d + n
  OBVIOUS
<1> HIDE DEF t, d
<1>3. Injective(t)
  <2> SUFFICES ASSUME NEW i \in 1..Len(t), NEW j \in 1..Len(t), t[i] = t[j] PROVE i = j
    BY <1>1 DEF Injective
  <2>1. d + i \in DOMAIN s /\ d + j \in DOMAIN s /\ s[d + i] = s[d + j]
    BY <1>1
  <2>2. d + i = d + j
    BY <2>1 DEF Injective
  <2> QED BY <1>1, <2>2
<1>4. ToSet(t) \subseteq ToSet(s)
  BY <1>1 DEF ToSet
<1>5. ASSUME NEW x, NEW y \in Behind(t, x) PROVE y \in Behind(s, x)
  <2>1. PICK j \in 1..Len(t) : y = t[j] /\ y # x /\ \E i \in 1..(j - 1) : t[i] = x
    BY <1>1, <1>5 DEF Behind
  <2>2. PICK i \in 1..(j - 1) : t[i] = x
    BY <2>1
  <2>3. PICK q \in DOMAIN s : q = d + j /\ s[q] = y
    BY <1>1, <2>1
  <2>4. PICK p \in 1..(q - 1) : p = d + i /\ s[p] = x
    BY <1>1, <2>1, <2>2, <2>3
  <2> QED BY <2>1, <2>3, <2>4, InBehind
<1>6. ASSUME NEW x \in ToSet(s) \ ToSet(t), NEW B, IsFiniteSet(B), Behind(s, x) \subseteq B
      PROVE  Cardinality(B) >= n
  <2>1. PICK p \in 1..Len(s) : x = s[p]
    BY <1>1 DEF ToSet
  <2>2. p <= d
    <3> SUFFICES ASSUME p > d PROVE FALSE
      BY <1>1
    <3>1. p - d \in 1..Len(t) /\ t[p - d] = x
      BY <1>1, <2>1
    <3> QED BY <1>1, <1>6, <3>1 DEF ToSet
  <2>3. Len(s) = d + n
    BY <1>1, <1>2, <2>2
  <2> DEFINE f == [q \in 1..n |-> s[d + q]]
  <2>4. ASSUME NEW q \in 1..n PROVE f[q] \in B /\ d + q \in 1..Len(s)
    <3>1. d + q \in DOMAIN s /\ p \in DOMAIN s /\ p \in 1..(d + q - 1) /\ p # d + q
      BY <1>1, <2>2, <2>3
    <3>2. s[d + q] # x
      BY <2>1, <3>1 DEF Injective
    <3>3. PICK r \in DOMAIN s : r = d + q /\ s[r] # x
      BY <3>1, <3>2
    <3>4. s[r] \in Behind(s, x)
      <4>1. p \in 1..(r - 1)
        BY <1>1, <3>1, <3>3
      <4>2. s[p] = x
        BY <2>1
      <4> QED BY <3>3, <4>1, <4>2, InBehind
    <3>5. s[d + q] \in B
      BY <1>6, <3>3, <3>4
    <3> QED BY <1>1, <3>1, <3>5
  <2>5. ASSUME NEW q1 \in 1..n, NEW q2 \in 1..n, f[q1] = f[q2] PROVE q1 = q2
    <3>1. d + q1 \in DOMAIN s /\ d + q2 \in DOMAIN s /\ s[d + q1] = s[d + q2]
      BY <1>1, <2>4, <2>5
    <3>2. d + q1 = d + q2
      BY <3>1 DEF Injective
    <3> QED BY <1>1, <3>2
  <2>6. f \in Injection(1..n, B)
    BY <2>4, <2>5 DEF Injection, IsInjective
  <2>7. Cardinality(1..n) <= Cardinality(B)
    BY <1>6, <2>6, FS_Injection
  <2>8. Cardinality(1..n) = n /\ Cardinality(B) \in Nat
    BY <1>6, FS_Interval, FS_CardinalityType
  <2> QED BY <2>7, <2>8
<1> QED BY <1>1, <1>3, <1>4, <1>5, <1>6 DEF t

USE DEF vars, inbox, pass, config, flash, ram, history, bounds

-----------------------------------------------------------------------------
(* Settings as tables.                                                     *)
Table(c) == c = [k \in Keys |-> c[k]]

LEMMA PutReads ==
  ASSUME NEW c, Table(c), NEW us
  PROVE  /\ Table(Put(c, us))
         /\ \A k \in Keys : Put(c, us)[k] = IF k \in KeysOf(us) THEN LastOf(us, k) ELSE c[k]
<1>1. Put(c, us) = [k \in Keys |-> IF k \in KeysOf(us) THEN LastOf(us, k) ELSE c[k]]
  BY DEF Table, Put
<1> QED BY <1>1 DEF Table

LEMMA InForceReads ==
  ASSUME NEW c, Table(c), NEW us
  PROVE  /\ Table(InForce(c, us))
         /\ \A k \in Keys : InForce(c, us)[k] = IF k \in KeysOf(us) \ OnlyStored[path] THEN LastOf(us, k)
                                                ELSE c[k]
<1>1. InForce(c, us) = [k \in Keys |-> IF k \in KeysOf(us) \ OnlyStored[path] THEN LastOf(us, k) ELSE c[k]]
  BY DEF Table, InForce
<1> QED BY <1>1 DEF Table

-----------------------------------------------------------------------------
(* The invariant.  Between the modules it is the copy of the last result   *)
(* that is going to be in force; the copy of the next command differs from *)
(* it in the sensor's offset at most.                                      *)
Shaped ==
  /\ Table(live) /\ Table(disk) /\ Table(reported)
  /\ path \in {"light", "heavy"}
  /\ path = "heavy" => /\ pc = "work"
                       /\ copies = [current |-> copies.current, last |-> copies.last]
                       /\ Table(copies.current) /\ Table(copies.last)

TellsOf(c) == \A k \in Keys \ (doubtful \cup apart) : c[k] = reported[k]
Told ==
  /\ path # "heavy" => TellsOf(live)
  /\ path = "heavy" => /\ TellsOf(copies.last)
                       /\ \A k \in Keys \ {Ph} : copies.current[k] = copies.last[k]

HaltIsLast == halting => path = "light" /\ (pc = "halted" \/ (pc = "work" /\ batch = <<>>))

Sound == Shaped /\ AppliedIsDurable /\ Told /\ HaltIsLast

LEMMA DurableIsKey == \A k \in Durable : k \in Keys /\ k # Ph
BY IntakeAssumption

(* A restart: the settings in force are those on flash.                    *)
LEMMA BootSound ==
  ASSUME Sound, NEW saved, Table(saved), Boot(saved), doubtful \subseteq doubtful',
         \A k \in Durable \ doubtful' : saved[k] = disk[k]
  PROVE  Sound'
<1>1. /\ reported' = [k \in Keys |-> IF k \in Durable THEN reported[k] ELSE saved[k]]
      /\ disk' = saved /\ live' = saved /\ path' = "light" /\ halting' = FALSE
  BY DEF Boot
<1>2. Table(reported')
  BY <1>1 DEF Table
<1>3. AppliedIsDurable'
  BY <1>1, DurableIsKey DEF Sound, AppliedIsDurable
<1>4. TellsOf(live)'
  <2> SUFFICES ASSUME NEW k \in Keys, k \notin doubtful' PROVE live'[k] = reported'[k]
    BY DEF TellsOf
  <2>1. CASE k \in Durable
    BY <1>1, <2>1 DEF Sound, AppliedIsDurable
  <2>2. CASE k \notin Durable
    BY <1>1, <2>2
  <2> QED BY <2>1, <2>2
<1> QED BY <1>1, <1>2, <1>3, <1>4 DEF Sound, Shaped, Told, HaltIsLast

(* Flash: a report comes with its write, or is of no setting that needs a  *)
(* restart; without a report, what is written is in doubt.                 *)
LEMMA ReportDurable ==
  ASSUME Sound, NEW us, Reports(us),
         disk' = Put(disk, us) \/ (disk' = disk /\ KeysOf(us) \cap Durable = {})
  PROVE  AppliedIsDurable' /\ Table(disk)' /\ Table(reported)'
<1>1. Table(disk) /\ Table(reported) /\ reported' = Put(reported, us)
  BY DEF Sound, Shaped, Reports
<1>2. ASSUME NEW k \in Durable, k \notin doubtful' PROVE disk'[k] = reported'[k]
  <2>1. CASE k \in KeysOf(us)
    BY <1>1, <2>1, PutReads, DurableIsKey
  <2>2. CASE k \notin KeysOf(us)
    <3>1. k \notin doubtful
      BY <1>2, <2>2 DEF Reports
    <3> QED BY <1>1, <2>2, <3>1, PutReads, DurableIsKey DEF Sound, AppliedIsDurable
  <2> QED BY <2>1, <2>2
<1> QED BY <1>1, <1>2, PutReads DEF AppliedIsDurable

LEMMA SilentDurable ==
  ASSUME Sound, NEW us, reported' = reported, doubtful \subseteq doubtful',
         disk' = disk \/ (disk' = Put(disk, us) /\ KeysOf(us) \subseteq doubtful')
  PROVE  AppliedIsDurable' /\ Table(disk)' /\ Table(reported)'
BY PutReads, DurableIsKey DEF Sound, Shaped, AppliedIsDurable

(* RAM: values that take effect are told, in either pass.                  *)
LEMMA AppliesTold ==
  ASSUME Sound, NEW us, Applies(us), Reports(us), UNCHANGED <<path, pc>>
  PROVE  Told' /\ Table(live)'
         /\ (path = "heavy" => copies' = [current |-> copies'.current, last |-> copies'.last]
                               /\ Table(copies'.current) /\ Table(copies'.last))
<1>1. Table(reported) /\ reported' = Put(reported, us) /\ doubtful' = doubtful \ KeysOf(us)
  BY DEF Sound, Shaped, Reports
<1> DEFINE Old == IF path = "light" THEN live ELSE copies.current
           New == InForce(Old, us)
<1>2. path \in {"light", "heavy"} /\ Table(Old) /\ Table(live)
  BY DEF Sound, Shaped
<1>3. ASSUME NEW k \in Keys, k \notin doubtful', k \notin apart' PROVE New[k] = reported'[k]
  <2>1. k \notin Stored(us) /\ (k \notin KeysOf(us) => k \notin apart /\ (path = "heavy" => k \notin Displaced))
    BY <1>2, <1>3 DEF Applies
  <2>2. CASE k \in KeysOf(us)
    <3>1. New[k] = LastOf(us, k)
      <4>1. k \in KeysOf(us) \ OnlyStored[path]
        BY <2>1, <2>2 DEF Stored
      <4> HIDE DEF Old
      <4> QED BY <1>2, <4>1, InForceReads
    <3> QED BY <1>1, <2>2, <3>1, PutReads
  <2>3. CASE k \notin KeysOf(us)
    <3>1. New[k] = Old[k]
      <4> HIDE DEF Old
      <4> QED BY <1>2, <2>3, InForceReads
    <3>2. k \notin doubtful /\ k \notin apart
      BY <1>1, <1>3, <2>1, <2>3
    <3>3. Old[k] = reported[k]
      BY <1>2, <2>1, <2>3, <3>2 DEF Sound, Told, TellsOf, Displaced
    <3> QED BY <1>1, <2>3, <3>1, <3>3, PutReads
  <2> QED BY <2>2, <2>3
<1>4. Table(New)
  <2> HIDE DEF Old
  <2> QED BY <1>2, InForceReads
<1>5. CASE path = "light"
  <2>1. live' = New
    BY <1>5 DEF Applies
  <2> HIDE DEF New
  <2> QED BY <1>3, <1>4, <1>5, <2>1 DEF Told, TellsOf
<1>6. CASE path = "heavy"
  <2>1. copies' = [current |-> New, last |-> New] /\ live' = live
    BY <1>6 DEF Applies
  <2> HIDE DEF New
  <2> QED BY <1>2, <1>3, <1>4, <1>6, <2>1 DEF Told, TellsOf
<1> QED BY <1>2, <1>5, <1>6

(* A command that changes nothing makes the next command's copy the one to *)
(* be adopted, and with it displaces the offset it does not have.          *)
LEMMA LastIsCurrentTold ==
  ASSUME Sound, path = "heavy", copies'.last = copies.current, copies'.current = copies.current,
         apart' = apart \cup Displaced, doubtful \subseteq doubtful',
         UNCHANGED <<path, reported>>
  PROVE  Told'
<1>1. TellsOf(copies.current)'
  <2> SUFFICES ASSUME NEW k \in Keys, k \notin doubtful', k \notin apart'
               PROVE  copies.current[k] = reported'[k]
    BY DEF TellsOf
  <2>1. copies.current[k] = copies.last[k]
    BY DEF Sound, Told, Displaced
  <2> QED BY <2>1 DEF Sound, Told, TellsOf
<1> QED BY <1>1 DEF Told, TellsOf

LEMMA KeepsTold ==
  ASSUME Sound, Keeps, doubtful \subseteq doubtful', UNCHANGED <<path, pc, reported>>
  PROVE  Told' /\ Table(live)'
         /\ (path = "heavy" => copies' = [current |-> copies'.current, last |-> copies'.last]
                               /\ Table(copies'.current) /\ Table(copies'.last))
<1>1. CASE path = "light"
  BY <1>1 DEF Keeps, Sound, Shaped, Told, TellsOf
<1>2. CASE path = "heavy"
  <2>1. /\ copies' = [copies EXCEPT !.last = copies.current]
        /\ apart' = apart \cup Displaced /\ live' = live
    BY <1>2 DEF Keeps
  <2>2. copies' = [current |-> copies.current, last |-> copies.current]
    BY <1>2, <2>1 DEF Sound, Shaped
  <2> QED BY <1>2, <2>1, <2>2, LastIsCurrentTold DEF Sound, Shaped
<1> QED BY <1>1, <1>2 DEF Sound, Shaped

(* What the last command of a pass is told of stays true until something   *)
(* takes effect: a step that touches neither report nor settings.          *)
LEMMA SameTold ==
  ASSUME Sound, UNCHANGED <<live, copies, path, reported, apart>>, doubtful \subseteq doubtful'
  PROVE  Told'
BY DEF Sound, Told, TellsOf

-----------------------------------------------------------------------------
(* The queues hold commands.                                               *)
Queues == queue \in Seq(Messages) /\ batch \in Seq(Messages)

LEMMA QueuesInductive == Queues /\ [Next]_vars => Queues'
<1> SUFFICES ASSUME Queues, [Next]_vars PROVE Queues'
  OBVIOUS
<1>1. ASSUME NEW saved, Boot(saved) PROVE Queues'
  BY <1>1 DEF Boot, Queues
<1>2. ASSUME NEW m, NEW n, batch # <<>>, Answer(m, n) PROVE Queues'
  BY <1>2 DEF Answer, Queues
<1>3. ASSUME NEW m \in Messages, Deliver(m) PROVE Queues'
  BY <1>3 DEF Deliver, Queues
<1>4. CASE Reject \/ RestartOnly \/ Switch \/ SessionLight \/ SessionHeavy
  BY <1>2, <1>4 DEF Reject, RestartOnly, Switch, SessionLight, SessionHeavy, Controls, AtWork
<1>5. CASE ConfigLight \/ ConfigNotSaved \/ ConfigShort \/ OffsetLight \/ OffsetShort
  BY <1>2, <1>5 DEF ConfigLight, ConfigNotSaved, ConfigShort, OffsetLight, OffsetShort, Writable,
                    Calibrating, AtWork
<1>6. CASE ConfigHeavy \/ ConfigHeavyFails \/ OffsetHeavy \/ Prepare \/ LogsGet
  BY <1>2, <1>6 DEF ConfigHeavy, ConfigHeavyFails, OffsetHeavy, Prepare, LogsGet, AtWork
<1>7. CASE Reset \/ Reboot \/ ConfigFatal \/ ConfigHeavyFatal
  BY <1>1, <1>7 DEF Reset, Reboot, ConfigFatal, ConfigHeavyFatal
<1>8. CASE Halt
  BY <1>8 DEF Halt, Stopped, Queues
<1>9. CASE OffsetCut
  <2>1. queue' = Tail(batch) \o queue /\ batch' = <<>> /\ batch # <<>>
    BY <1>9 DEF OffsetCut, Calibrating, AtWork
  <2>2. Tail(batch) \in Seq(Messages)
    BY <2>1 DEF Queues
  <2> QED BY <2>1, <2>2 DEF Queues
<1>10. CASE HandOver
  BY <1>10 DEF HandOver, Restored, Queues
<1>11. CASE HaltHeavy \/ PassOver \/ HeavyShort
  <2>1. CASE HaltHeavy \/ PassOver
    BY <2>1 DEF HaltHeavy, PassOver, AtWork, Queues
  <2>2. CASE HeavyShort
    <3>1. queue' = <<>> /\ batch' = <<>>
      BY <2>2 DEF HeavyShort
    <3> QED BY <3>1 DEF Queues
  <2> QED BY <1>11, <2>1, <2>2
<1>12. CASE Resubscribe \/ Drain \/ EndPass \/ NoSample \/ Sample \/ LastSample \/ Sync \/ EnterHalt \/ Halted
  <2>1. CASE Drain
    BY <2>1 DEF Drain, Queues
  <2>2. CASE UNCHANGED <<queue, batch>>
    BY <2>2 DEF Queues
  <2> QED BY <1>12, <2>1, <2>2 DEF Resubscribe, EndPass, NoSample, Sample, LastSample, Sync, EnterHalt, Halted
<1>13. CASE UNCHANGED vars
  BY <1>13 DEF Queues
<1> QED BY <1>3, <1>4, <1>5, <1>6, <1>7, <1>8, <1>9, <1>10, <1>11, <1>12, <1>13
        DEF Next, Light, Heavy, Loop

(* A calibration sets the sensor's offset, a switch command one relay.     *)
LEMMA OneKey ==
  ASSUME Queues, batch # <<>>
  PROVE  /\ Kind[Command] = "offset" => KeysOf(Updates[Command]) = {Ph}
         /\ Kind[Command] = "switch" => \E r \in Relays : KeysOf(Updates[Command]) = {r}
<1>1. Command \in Messages
  BY DEF Queues, Command
<1>2. ASSUME Kind[Command] \in {"switch", "offset"} PROVE KeysOf(Updates[Command]) = {Updates[Command][1][1]}
  <2>1. Len(Updates[Command]) = 1 /\ Updates[Command] \in Seq(Update)
    BY <1>1, <1>2, IntakeAssumption
  <2>2. DOMAIN Updates[Command] = {1}
    BY <2>1
  <2> QED BY <2>2 DEF KeysOf
<1> QED BY <1>1, <1>2, IntakeAssumption

-----------------------------------------------------------------------------
(* A command is worked on only while no halt was accepted; the rest of a   *)
(* step that gives it its result is what happens to the settings.          *)
LEMMA CommandSound ==
  ASSUME Sound, pc = "work", batch # <<>>, UNCHANGED <<pc, path, halting>>,
         AppliedIsDurable', Table(disk)', Table(reported)', Told', Table(live)',
         path = "heavy" => /\ copies' = [current |-> copies'.current, last |-> copies'.last]
                           /\ Table(copies'.current) /\ Table(copies'.last)
  PROVE  Sound'
<1>1. ~halting
  BY DEF Sound, HaltIsLast
<1>2. Shaped'
  BY DEF Sound, Shaped
<1> QED BY <1>1, <1>2 DEF Sound, HaltIsLast

(* A result that says nothing was applied.                                 *)
LEMMA KeepsSound ==
  ASSUME Sound, pc = "work", batch # <<>>, UNCHANGED <<pc, path, halting, reported>>, Keeps,
         doubtful \subseteq doubtful', NEW us,
         disk' = disk \/ (disk' = Put(disk, us) /\ KeysOf(us) \subseteq doubtful')
  PROVE  Sound'
<1>1. AppliedIsDurable' /\ Table(disk)' /\ Table(reported)'
  BY SilentDurable
<1>2. Told' /\ Table(live)'
      /\ (path = "heavy" => copies' = [current |-> copies'.current, last |-> copies'.last]
                            /\ Table(copies'.current) /\ Table(copies'.last))
  BY KeepsTold
<1> QED BY <1>1, <1>2, CommandSound

(* A result that says `us` was applied.                                    *)
LEMMA AppliesSound ==
  ASSUME Sound, pc = "work", batch # <<>>, UNCHANGED <<pc, path, halting>>,
         NEW us, Applies(us), Reports(us),
         disk' = Put(disk, us) \/ (disk' = disk /\ KeysOf(us) \cap Durable = {})
  PROVE  Sound'
<1>1. AppliedIsDurable' /\ Table(disk)' /\ Table(reported)'
  BY ReportDurable
<1>2. Told' /\ Table(live)'
      /\ (path = "heavy" => copies' = [current |-> copies'.current, last |-> copies'.last]
                            /\ Table(copies'.current) /\ Table(copies'.last))
  BY AppliesTold
<1> QED BY <1>1, <1>2, CommandSound

(* The light pass runs short of memory: what may have been set is in doubt. *)
LEMMA ShortSound ==
  ASSUME Sound, pc = "work", batch # <<>>, path = "light", UNCHANGED <<pc, path, halting, reported, apart>>,
         NEW us, doubtful' = doubtful \cup KeysOf(us),
         live' = live \/ live' = Put(live, us) \/ live' = InForce(live, us),
         disk' = disk \/ disk' = Put(disk, us)
  PROVE  Sound'
<1>1. AppliedIsDurable' /\ Table(disk)' /\ Table(reported)'
  BY SilentDurable
<1>2. Table(live) /\ TellsOf(live)
  BY DEF Sound, Shaped, Told
<1>3. Table(live)' /\ TellsOf(live)'
  BY <1>2, PutReads, InForceReads DEF TellsOf
<1> QED BY <1>1, <1>3, CommandSound DEF Told

-----------------------------------------------------------------------------
(* Either pass.                                                            *)
LEMMA RejectSound == Sound /\ (Reject \/ RestartOnly \/ SessionLight \/ SessionHeavy) => Sound'
<1> SUFFICES ASSUME Sound, Reject \/ RestartOnly \/ SessionLight \/ SessionHeavy PROVE Sound'
  OBVIOUS
<1>1. /\ pc = "work" /\ batch # <<>> /\ Keeps
      /\ UNCHANGED <<pc, path, halting, reported, doubtful, disk>>
  BY DEF Reject, RestartOnly, SessionLight, SessionHeavy, Controls, AtWork, Answer
<1> QED BY <1>1, KeepsSound

LEMMA SwitchSound == Sound /\ Queues /\ Switch => Sound'
<1> SUFFICES ASSUME Sound, Queues, Switch PROVE Sound'
  OBVIOUS
<1> DEFINE us == Updates[Command]
<1>1. /\ pc = "work" /\ batch # <<>> /\ Kind[Command] = "switch"
      /\ UNCHANGED <<pc, path, halting>>
  BY DEF Switch, AtWork, Command, Answer
<1>2. PICK r \in Relays : KeysOf(us) = {r}
  BY <1>1, OneKey
<1>3. r \notin Durable /\ r # Ph
  BY IntakeAssumption
<1>4. /\ path \in {"light", "heavy"} /\ Table(live) /\ Table(reported)
      /\ path = "heavy" => copies = [current |-> copies.current, last |-> copies.last]
                           /\ Table(copies.current) /\ Table(copies.last)
  BY DEF Sound, Shaped
<1>5. CASE /\ disk' = Put(disk, us) \/ disk' = disk
           /\ live' = Put(live, us)
           /\ copies' = IF path = "light" THEN copies
                        ELSE [current |-> Put(copies.current, us), last |-> Put(copies.current, us)]
           /\ Reports(us)
           /\ apart' = (IF path = "light" THEN apart ELSE apart \cup Displaced) \ KeysOf(us)
  <2>1. AppliedIsDurable' /\ Table(disk)' /\ Table(reported)'
    BY <1>2, <1>3, <1>5, ReportDurable
  <2>2. Table(live)' /\ reported' = Put(reported, us) /\ doubtful' = doubtful \ {r}
    BY <1>2, <1>4, <1>5, PutReads DEF Reports
  <2> DEFINE Old == IF path = "light" THEN live ELSE copies.current
  <2>3. Table(Old)
    BY <1>4
  <2>4. ASSUME NEW k \in Keys, k \notin doubtful', k \notin apart'
        PROVE  Put(Old, us)[k] = Put(reported, us)[k]
    <3>1. CASE k = r
      <4> HIDE DEF Old
      <4> QED BY <1>2, <1>4, <2>3, <3>1, PutReads
    <3>2. CASE k # r
      <4>1. k \notin doubtful /\ k \notin apart /\ (path = "heavy" => k \notin Displaced)
        BY <1>2, <1>5, <2>2, <2>4, <3>2
      <4>2. Old[k] = reported[k]
        BY <1>4, <4>1 DEF Sound, Told, TellsOf, Displaced
      <4> HIDE DEF Old
      <4> QED BY <1>2, <1>4, <2>3, <3>2, <4>2, PutReads
    <3> QED BY <3>1, <3>2
  <2>5. CASE path = "light"
    <3>1. Told'
      BY <1>1, <1>5, <2>2, <2>4, <2>5 DEF Told, TellsOf
    <3> QED BY <1>1, <2>1, <2>2, <2>5, <3>1, CommandSound
  <2>6. CASE path = "heavy"
    <3>1. copies' = [current |-> Put(copies.current, us), last |-> Put(copies.current, us)]
      BY <1>5, <2>6
    <3>2. Table(copies'.current) /\ Table(copies'.last)
      BY <1>4, <2>6, <3>1, PutReads
    <3>3. Told'
      BY <1>1, <2>2, <2>4, <2>6, <3>1 DEF Told, TellsOf
    <3>4. copies' = [current |-> copies'.current, last |-> copies'.last]
      BY <3>1
    <3> QED BY <1>1, <2>1, <2>2, <3>2, <3>3, <3>4, CommandSound
  <2> QED BY <1>4, <2>5, <2>6
<1>6. CASE Keeps /\ UNCHANGED <<disk, reported, doubtful>>
  BY <1>1, <1>6, KeepsSound
<1> QED BY <1>5, <1>6 DEF Switch

(* The light pass.                                                         *)
LEMMA ConfigLightSound == Sound /\ (ConfigLight \/ ConfigNotSaved \/ ConfigShort \/ ConfigFatal) => Sound'
<1> SUFFICES ASSUME Sound, ConfigLight \/ ConfigNotSaved \/ ConfigShort \/ ConfigFatal PROVE Sound'
  OBVIOUS
<1> DEFINE us == Updates[Command]
<1>1. pc = "work" /\ batch # <<>> /\ path = "light"
  BY DEF ConfigLight, ConfigNotSaved, ConfigShort, ConfigFatal, Writable, AtWork
<1>2. CASE ConfigLight
  <2>1. /\ Applies(us) /\ Reports(us) /\ UNCHANGED <<pc, path, halting>>
        /\ disk' = Put(disk, us) \/ (disk' = disk /\ KeysOf(us) \cap Durable = {})
    BY <1>2 DEF ConfigLight, Answer, DurableFirst, NeedsRestart
  <2> QED BY <1>1, <2>1, AppliesSound
<1>3. CASE ConfigNotSaved
  <2>1. Keeps /\ UNCHANGED <<pc, path, halting, reported, doubtful, disk>>
    BY <1>1, <1>3 DEF ConfigNotSaved, Answer, Keeps
  <2> QED BY <1>1, <2>1, KeepsSound
<1>4. CASE ConfigShort
  <2>1. /\ UNCHANGED <<pc, path, halting, reported, apart>>
        /\ doubtful' = doubtful \cup KeysOf(us)
        /\ live' = live \/ live' = InForce(live, us)
        /\ disk' = disk \/ disk' = Put(disk, us)
    BY <1>4 DEF ConfigShort, Answer
  <2> QED BY <1>1, <2>1, ShortSound
<1>5. CASE ConfigFatal
  <2> DEFINE saved == IF DurableFirst(us) THEN Put(disk, us) ELSE disk
  <2>1. Boot(saved) /\ doubtful' = doubtful \cup KeysOf(us)
    BY <1>5 DEF ConfigFatal
  <2>2. Table(disk)
    BY DEF Sound, Shaped
  <2>3. Table(saved) /\ \A k \in Durable \ doubtful' : saved[k] = disk[k]
    BY <2>1, <2>2, PutReads, DurableIsKey
  <2> HIDE DEF saved
  <2> QED BY <2>1, <2>3, BootSound
<1> QED BY <1>2, <1>3, <1>4, <1>5

LEMMA OffsetLightSound == Sound /\ Queues /\ (OffsetLight \/ OffsetShort \/ OffsetCut) => Sound'
<1> SUFFICES ASSUME Sound, Queues, OffsetLight \/ OffsetShort \/ OffsetCut PROVE Sound'
  OBVIOUS
<1> DEFINE us == Updates[Command]
<1>1. pc = "work" /\ batch # <<>> /\ path = "light" /\ Kind[Command] = "offset"
  BY DEF OffsetLight, OffsetShort, OffsetCut, Calibrating, AtWork, Command
<1>2. KeysOf(us) \cap Durable = {}
  BY <1>1, OneKey, DurableIsKey
<1>3. CASE OffsetLight
  <2>1. Applies(us) /\ Reports(us) /\ (disk' = Put(disk, us) \/ disk' = disk) /\ UNCHANGED <<pc, path, halting>>
    BY <1>3 DEF OffsetLight, Answer
  <2> QED BY <1>1, <1>2, <2>1, AppliesSound
<1>4. CASE OffsetShort
  <2>1. /\ UNCHANGED <<pc, path, halting, reported, apart, disk>>
        /\ doubtful' = doubtful \cup KeysOf(us)
        /\ live' = live \/ live' = Put(live, us)
    BY <1>4 DEF OffsetShort, Answer
  <2> QED BY <1>1, <2>1, ShortSound
<1>5. CASE OffsetCut
  <2>1. /\ UNCHANGED <<pc, path, halting, reported, apart, disk>>
        /\ doubtful' = doubtful \cup KeysOf(us)
        /\ live' = Put(live, us)
    BY <1>5 DEF OffsetCut
  <2> QED BY <1>1, <2>1, ShortSound
<1> QED BY <1>3, <1>4, <1>5

LEMMA HaltHandOverSound == Sound /\ (Halt \/ HandOver) => Sound'
<1> SUFFICES ASSUME Sound, Halt \/ HandOver PROVE Sound'
  OBVIOUS
<1>1. pc = "work" /\ batch # <<>> /\ path = "light"
  BY DEF Halt, HandOver, AtWork
<1>2. UNCHANGED <<pc, live, disk, reported, doubtful, apart>>
  BY DEF Halt, HandOver
<1>3. AppliedIsDurable'
  BY <1>2 DEF Sound, AppliedIsDurable
<1>4. Table(live) /\ Table(disk) /\ Table(reported) /\ TellsOf(live) /\ ~halting
  BY <1>1 DEF Sound, Shaped, Told, HaltIsLast
<1>5. TellsOf(live)'
  BY <1>2, <1>4 DEF TellsOf
<1>6. CASE Halt
  <2>1. path' = path /\ batch' = <<>> /\ copies' = copies
    BY <1>6 DEF Halt, Stopped
  <2> QED BY <1>1, <1>2, <1>3, <1>4, <1>5, <2>1 DEF Sound, Shaped, Told, HaltIsLast
<1>7. CASE HandOver
  <2>1. path' = "heavy" /\ halting' = halting /\ copies' = [current |-> live, last |-> live]
    BY <1>7 DEF HandOver
  <2> QED BY <1>1, <1>2, <1>3, <1>4, <1>5, <2>1 DEF Sound, Shaped, Told, TellsOf, HaltIsLast
<1> QED BY <1>6, <1>7

(* The heavy pass.                                                         *)
LEMMA ConfigHeavySound == Sound /\ (ConfigHeavy \/ ConfigHeavyFails \/ ConfigHeavyFatal) => Sound'
<1> SUFFICES ASSUME Sound, ConfigHeavy \/ ConfigHeavyFails \/ ConfigHeavyFatal PROVE Sound'
  OBVIOUS
<1>1. pc = "work" /\ batch # <<>> /\ path = "heavy"
  BY DEF ConfigHeavy, ConfigHeavyFails, ConfigHeavyFatal, Saving, AtWork
<1>2. CASE ConfigHeavy
  <2>1. PICK k \in 1..Len(Known(Command)) :
          /\ disk' = Put(disk, SubSeq(Known(Command), 1, k))
          /\ Applies(SubSeq(Known(Command), 1, k)) /\ Reports(SubSeq(Known(Command), 1, k))
    BY <1>2 DEF ConfigHeavy
  <2>2. UNCHANGED <<pc, path, halting>>
    BY <1>2 DEF ConfigHeavy, Answer
  <2> QED BY <1>1, <2>1, <2>2, AppliesSound
<1>3. CASE ConfigHeavyFails
  <2>1. PICK k \in 0..Len(Known(Command)) :
          /\ disk' = Put(disk, SubSeq(Known(Command), 1, k))
          /\ doubtful' = doubtful \cup KeysOf(SubSeq(Known(Command), 1, k))
    BY <1>3 DEF ConfigHeavyFails
  <2>2. UNCHANGED <<pc, path, halting, reported>> /\ Keeps
    BY <1>3 DEF ConfigHeavyFails, Answer
  <2> QED BY <1>1, <2>1, <2>2, KeepsSound
<1>4. CASE ConfigHeavyFatal
  <2> DEFINE saved == Put(disk, Known(Command))
  <2>1. Boot(saved) /\ doubtful' = doubtful \cup KeysOf(Known(Command))
    BY <1>4 DEF ConfigHeavyFatal
  <2>2. Table(disk)
    BY DEF Sound, Shaped
  <2>3. Table(saved) /\ \A k \in Durable \ doubtful' : saved[k] = disk[k]
    BY <2>1, <2>2, PutReads, DurableIsKey
  <2> HIDE DEF saved
  <2> QED BY <2>1, <2>3, BootSound
<1> QED BY <1>2, <1>3, <1>4

LEMMA OffsetHeavySound == Sound /\ Queues /\ OffsetHeavy => Sound'
<1> SUFFICES ASSUME Sound, Queues, OffsetHeavy PROVE Sound'
  OBVIOUS
<1> DEFINE us == Updates[Command]
<1>1. /\ pc = "work" /\ batch # <<>> /\ path = "heavy" /\ Kind[Command] = "offset"
      /\ UNCHANGED <<pc, path, halting, live>>
      /\ copies' = [copies EXCEPT !.last = Put(copies.current, us)]
      /\ apart' = apart \ KeysOf(us) /\ Reports(us)
      /\ disk' = Put(disk, us) \/ disk' = disk
  BY DEF OffsetHeavy, AtWork, Command, Answer
<1>2. KeysOf(us) = {Ph} /\ Ph \in Keys
  BY <1>1, OneKey, IntakeAssumption
<1>3. AppliedIsDurable' /\ Table(disk)' /\ Table(reported)'
  BY <1>1, <1>2, ReportDurable, DurableIsKey
<1>4. /\ Table(live) /\ Table(copies.current) /\ Table(copies.last) /\ Table(reported)
      /\ copies' = [current |-> copies.current, last |-> Put(copies.current, us)]
      /\ reported' = Put(reported, us) /\ doubtful' = doubtful \ {Ph}
  BY <1>1, <1>2 DEF Sound, Shaped, Reports
<1>5. Table(Put(copies.current, us)) /\ \A k \in Keys \ {Ph} : Put(copies.current, us)[k] = copies.current[k]
  BY <1>2, <1>4, PutReads
<1>6. ASSUME NEW k \in Keys, k \notin doubtful', k \notin apart'
      PROVE  Put(copies.current, us)[k] = Put(reported, us)[k]
  <2>1. CASE k = Ph
    BY <1>2, <1>4, <2>1, PutReads
  <2>2. CASE k # Ph
    <3>1. copies.current[k] = copies.last[k] /\ copies.last[k] = reported[k]
      BY <1>1, <1>2, <1>4, <1>6, <2>2 DEF Sound, Told, TellsOf
    <3> QED BY <1>2, <1>4, <2>2, <3>1, PutReads
  <2> QED BY <2>1, <2>2
<1>7. Told'
  BY <1>1, <1>4, <1>5, <1>6 DEF Told, TellsOf
<1> QED BY <1>1, <1>3, <1>4, <1>5, <1>7, CommandSound

LEMMA HeavyShortSound == Sound /\ HeavyShort => Sound'
<1> SUFFICES ASSUME Sound, HeavyShort PROVE Sound'
  OBVIOUS
<1> DEFINE us == Known(Command)
<1>1. /\ pc = "work" /\ batch # <<>> /\ path = "heavy"
      /\ UNCHANGED <<pc, path, halting, live, reported>>
      /\ copies' = [current |-> live, last |-> live]
      /\ apart' = apart \cup {k \in Keys : reported[k] # live[k]}
  BY DEF HeavyShort
<1>2. /\ doubtful' = doubtful \cup (IF disk' = disk THEN {} ELSE KeysOf(us))
      /\ disk' = disk \/ disk' = Put(disk, us)
  BY DEF HeavyShort
<1>3. /\ doubtful \subseteq doubtful'
      /\ disk' = disk \/ (disk' = Put(disk, us) /\ KeysOf(us) \subseteq doubtful')
  BY <1>2
<1>4. AppliedIsDurable' /\ Table(disk)' /\ Table(reported)'
  <2> HIDE DEF us
  <2> QED BY <1>1, <1>3, SilentDurable
<1>5. Told'
  BY <1>1 DEF Told, TellsOf
<1>6. Table(live)' /\ Table(copies'.current) /\ Table(copies'.last)
      /\ copies' = [current |-> copies'.current, last |-> copies'.last]
  BY <1>1 DEF Sound, Shaped, Table
<1> QED BY <1>1, <1>4, <1>5, <1>6, CommandSound

LEMMA HeavySound == Sound /\ (HaltHeavy \/ PassOver \/ Prepare \/ LogsGet) => Sound'
<1> SUFFICES ASSUME Sound, HaltHeavy \/ PassOver \/ Prepare \/ LogsGet PROVE Sound'
  OBVIOUS
<1>1. /\ pc = "work" /\ batch # <<>> /\ path = "heavy"
      /\ UNCHANGED <<pc, path, halting, disk, reported, doubtful>>
  BY DEF HaltHeavy, PassOver, Prepare, LogsGet, AtWork, Answer
<1>2. CASE Prepare \/ LogsGet
  BY <1>1, <1>2, KeepsSound DEF Prepare, LogsGet
<1>3. CASE HaltHeavy \/ PassOver
  <2>1. UNCHANGED <<live, copies, apart>>
    BY <1>3 DEF HaltHeavy, PassOver
  <2> QED BY <1>1, <2>1, SameTold, CommandSound DEF Sound, Shaped, AppliedIsDurable
<1> QED BY <1>2, <1>3

-----------------------------------------------------------------------------
(* The turn of the main loop.                                              *)

(* Outside of a pass only the one runtime_config counts.                   *)
LEMMA IdleSound ==
  ASSUME Sound, path # "heavy", UNCHANGED <<path, live, disk, reported, doubtful, apart>>,
         HaltIsLast'
  PROVE  Sound'
BY DEF Sound, Shaped, AppliedIsDurable, Told, TellsOf, HaltIsLast

LEMMA EndPassSound == Sound /\ EndPass => Sound'
<1> SUFFICES ASSUME Sound, EndPass PROVE Sound'
  OBVIOUS
<1>1. /\ UNCHANGED <<disk, reported, doubtful, apart, halting>> /\ ~halting
      /\ path' = "light" /\ live' = IF path = "heavy" THEN copies.last ELSE live
  BY DEF EndPass, Adopted
<1>2. Table(live)' /\ TellsOf(live)'
  BY <1>1 DEF Sound, Shaped, Told, TellsOf
<1> QED BY <1>1, <1>2 DEF Sound, Shaped, AppliedIsDurable, Told, HaltIsLast

LEMMA LastSampleSound == Sound /\ LastSample => Sound'
<1> SUFFICES ASSUME Sound, LastSample PROVE Sound'
  OBVIOUS
<1> DEFINE us == <<<<Ph, Computed(Sampled)>>>>
<1>1. /\ pc = "calibrate" /\ UNCHANGED <<path, halting>>
      /\ apart' = IF live' = live THEN apart ELSE apart \ {Ph}
      /\ \/ live' = Put(live, us) /\ disk' = Put(disk, us) /\ Reports(us)
         \/ UNCHANGED <<live, disk, reported, doubtful>>
  BY DEF LastSample
<1>2. path = "light" /\ HaltIsLast' /\ Table(live) /\ Table(reported) /\ TellsOf(live)
  BY <1>1 DEF Sound, Shaped, Told, HaltIsLast
<1>3. CASE UNCHANGED <<live, disk, reported, doubtful>>
  BY <1>1, <1>2, <1>3, IdleSound
<1>4. CASE live' = Put(live, us) /\ disk' = Put(disk, us) /\ Reports(us)
  <2>1. AppliedIsDurable' /\ Table(disk)' /\ Table(reported)'
    <3> HIDE DEF us
    <3> QED BY <1>4, ReportDurable
  <2>2. KeysOf(us) = {Ph}
    BY DEF KeysOf
  <2>3. reported' = Put(reported, us) /\ doubtful' = doubtful \ {Ph}
    <3> HIDE DEF us
    <3> QED BY <1>4, <2>2 DEF Reports
  <2> HIDE DEF us
  <2>4. ASSUME NEW k \in Keys, k \notin doubtful', k \notin apart'
        PROVE  Put(live, us)[k] = Put(reported, us)[k]
    <3>1. CASE k = Ph
      BY <1>2, <2>2, <3>1, PutReads
    <3>2. CASE k # Ph
      <4>1. k \notin doubtful /\ k \notin apart
        BY <1>1, <2>3, <2>4, <3>2
      <4> QED BY <1>2, <2>2, <3>2, <4>1, PutReads DEF TellsOf
    <3> QED BY <3>1, <3>2
  <2>5. TellsOf(live)'
    BY <1>4, <2>3, <2>4 DEF TellsOf
  <2>6. Table(live)'
    BY <1>2, <1>4, PutReads
  <2> QED BY <1>1, <1>2, <2>1, <2>5, <2>6 DEF Sound, Shaped, Told
<1> QED BY <1>1, <1>3, <1>4

LEMMA LoopSound ==
  ASSUME Sound, Resubscribe \/ Drain \/ NoSample \/ Sample \/ Sync \/ EnterHalt
                \/ \E m \in Messages : Deliver(m)
  PROVE  Sound'
<1>1. UNCHANGED <<path, live, copies, disk, reported, doubtful, apart, halting>>
  BY DEF Resubscribe, Drain, NoSample, Sample, Sync, EnterHalt, Deliver
<1>2. pc \in {"intake", "calibrate", "sync"} \/ (EnterHalt /\ pc = "work" /\ halting /\ pc' = "halted")
  BY DEF Resubscribe, Drain, NoSample, Sample, Sync, EnterHalt, Deliver
<1>3. path # "heavy" /\ HaltIsLast'
  BY <1>1, <1>2 DEF Sound, Shaped, HaltIsLast
<1> QED BY <1>1, <1>3, IdleSound

LEMMA RestartSound == Sound /\ (Reset \/ Reboot) => Sound'
<1> SUFFICES ASSUME Sound, Reset \/ Reboot PROVE Sound'
  OBVIOUS
<1>1. Boot(disk) /\ doubtful' = doubtful /\ Table(disk)
  BY DEF Reset, Reboot, Sound, Shaped
<1> QED BY <1>1, BootSound

-----------------------------------------------------------------------------
LEMMA SoundInit == Init => Sound
<1> SUFFICES ASSUME Init PROVE Sound
  OBVIOUS
<1>1. live = [k \in Keys |-> Factory] /\ disk = live /\ reported = live /\ path = "light" /\ halting = FALSE
  BY DEF Init
<1>2. Table(live)
  BY <1>1 DEF Table
<1> QED BY <1>1, <1>2, DurableIsKey
        DEF Sound, Shaped, Table, AppliedIsDurable, Told, TellsOf, HaltIsLast

LEMMA StutterSound == Sound /\ UNCHANGED vars => Sound'
<1> SUFFICES ASSUME Sound, UNCHANGED vars PROVE Sound'
  OBVIOUS
<1>1. Shaped'
  BY DEF Sound, Shaped
<1>2. AppliedIsDurable' /\ HaltIsLast'
  BY DEF Sound, AppliedIsDurable, HaltIsLast
<1> QED BY <1>1, <1>2, SameTold DEF Sound

LEMMA SoundInductive == Sound /\ Queues /\ [Next]_vars => Sound'
BY RejectSound, SwitchSound, ConfigLightSound, OffsetLightSound, HaltHandOverSound, ConfigHeavySound,
   OffsetHeavySound, HeavyShortSound, HeavySound, EndPassSound, LastSampleSound, LoopSound, RestartSound,
   StutterSound DEF Next, Light, Heavy, Loop, Halted

LEMMA AlwaysSound == Spec => [](Sound /\ Queues)
<1>1. Init => Sound /\ Queues
  BY SoundInit DEF Init, Queues
<1>2. Sound /\ Queues /\ [Next]_vars => (Sound /\ Queues)'
  BY SoundInductive, QueuesInductive
<1> QED BY <1>1, <1>2, PTL DEF Spec

(* A result that says "applied" is true: the setting is in force between   *)
(* the passes - or it is one the pass only stores, or an offset a later    *)
(* result displaced -, and on flash where a restart puts it in force:      *)
(* through either pass and the hand-over between them, failing writes,     *)
(* shortages of memory, values that end the program, and resets            *)
(* (device_config.py, command_handlers.py, runtime_config_update.py, and   *)
(* the adoption in steady_state.py).                                       *)
THEOREM AppliedIsTrue == Spec => []ReportsSound
<1>1. Sound => ReportsSound
  BY DEF Sound, Shaped, Told, TellsOf, ReportsSound, InForceIsReported
<1> QED BY <1>1, AlwaysSound, PTL

(* Nothing is applied, saved or sampled after a halt that was accepted,    *)
(* whatever stood behind it in the batch (process_pending_commands, and    *)
(* _enter_runtime_halt of app.py).                                         *)
THEOREM HaltIsFinal == Spec => NothingAfterHalt
<1>1. ASSUME Sound, [Next]_vars, halting, halting'
      PROVE  UNCHANGED <<live, disk, session, token, prepared>>
  <2>1. pc = "halted" \/ (pc = "work" /\ batch = <<>>)
    BY <1>1 DEF Sound, HaltIsLast
  <2>2. ~Reset /\ ~Reboot /\ ~\E m \in Messages : Deliver(m)
    BY <1>1, <2>1 DEF Reset, Reboot, Boot, Deliver
  <2>3. ~Reject /\ ~RestartOnly
    BY <2>1 DEF Reject, RestartOnly, AtWork
  <2>4. ~Light
    BY <2>1 DEF Light, Switch, SessionLight, ConfigLight, ConfigNotSaved, ConfigShort, ConfigFatal, Halt,
                OffsetLight, OffsetShort, OffsetCut, HandOver, Controls, Writable, Calibrating, AtWork
  <2>5. ~Heavy
    BY <2>1 DEF Heavy, SessionHeavy, ConfigHeavy, ConfigHeavyFails, ConfigHeavyFatal, HaltHeavy, PassOver,
                OffsetHeavy, Prepare, LogsGet, HeavyShort, Controls, Saving, AtWork
  <2>6. ~Resubscribe /\ ~Drain /\ ~EndPass /\ ~NoSample /\ ~Sample /\ ~LastSample /\ ~Sync
    BY <1>1, <2>1 DEF Resubscribe, Drain, EndPass, NoSample, Sample, LastSample, Sync
  <2>7. CASE EnterHalt \/ Halted \/ UNCHANGED vars
    BY <2>7 DEF EnterHalt, Halted
  <2> QED BY <1>1, <2>2, <2>3, <2>4, <2>5, <2>6, <2>7 DEF Next, Loop
<1>2. Sound /\ [Next]_vars => [halting /\ halting' => UNCHANGED <<live, disk, session, token, prepared>>]_vars
  BY <1>1
<1> QED BY <1>2, AlwaysSound, PTL DEF Spec, NothingAfterHalt

-----------------------------------------------------------------------------
(* What is remembered of the ids.                                          *)
Ids == {Id[m] : m \in Messages} \ {NoId}
Listed ==
  /\ ids \in Seq(Ids) /\ before.ids \in 0..Len(ids)
  /\ handled \in Seq(Ids) /\ Injective(handled) /\ Len(handled) <= Limit
Lasting ==
  /\ ToSet(handled) \subseteq DOMAIN answered
  /\ \A x \in DOMAIN answered : IsFiniteSet(answered[x]) /\ x \notin answered[x]
  /\ \A x \in DOMAIN answered \ forgot : Cardinality(answered[x]) < Limit =>
       x \in ToSet(handled) /\ Behind(handled, x) \subseteq answered[x]
Memory == Listed /\ Lasting /\ ExecutedOnce

(* A step that gives a command its result, and one that touches no id.     *)
Replies ==
  /\ batch # <<>> /\ ids' = Noted(ids, Id[Command]) /\ UNCHANGED <<before, handled, answered, forgot>>
  /\ \/ again' = again
     \/ Executed(Command) /\ ~Duplicate(Command) /\ Kind[Command] # "switch"
Quiet == UNCHANGED <<ids, before, handled, answered, forgot, again>>

LEMMA RepliesMemory == Memory /\ Queues /\ Replies => Memory'
<1> SUFFICES ASSUME Memory, Queues, Replies PROVE Memory'
  OBVIOUS
<1>1. Command \in Messages
  BY DEF Replies, Queues, Command
<1>2. Listed'
  <2>1. CASE Id[Command] = NoId
    BY <2>1 DEF Memory, Listed, Replies, Noted
  <2>2. CASE Id[Command] # NoId
    <3>1. Id[Command] \in Ids
      BY <1>1, <2>2 DEF Ids
    <3>2. ids' = Append(ids, Id[Command])
      BY <2>2 DEF Replies, Noted
    <3>3. ids' \in Seq(Ids) /\ Len(ids') = Len(ids) + 1
      BY <3>1, <3>2 DEF Memory, Listed
    <3> QED BY <3>3 DEF Memory, Listed, Replies
  <2> QED BY <2>1, <2>2
<1>3. Lasting'
  BY DEF Memory, Lasting, Replies
<1>4. ExecutedOnce'
  <2>1. CASE again' = again
    BY <2>1 DEF Memory, ExecutedOnce, Replies
  <2>2. CASE Executed(Command) /\ ~Duplicate(Command) /\ Kind[Command] # "switch"
    <3>1. Id[Command] # NoId
      BY <1>1, <2>2, IntakeAssumption
    <3>2. Id[Command] \notin ToSet(handled) /\ Id[Command] \notin HeavyIds
      BY <2>2, <3>1 DEF Duplicate, Seen
    <3>3. TooSoon(Command) => Id[Command] \in forgot
      BY <3>2 DEF Memory, Lasting, TooSoon
    <3> QED BY <2>2, <3>3 DEF Executed, Memory, ExecutedOnce, Replies
  <2> QED BY <2>1, <2>2 DEF Replies
<1> QED BY <1>2, <1>3, <1>4 DEF Memory

LEMMA QuietMemory == Memory /\ Quiet => Memory'
BY DEF Memory, Listed, Lasting, ExecutedOnce, Quiet

(* More is answered: it is remembered, or among what was lost.             *)
LEMMA AnswersMore ==
  ASSUME NEW s \in Seq(Ids), Lasting, Answers(s)
  PROVE  /\ DOMAIN answered' = DOMAIN answered \cup ToSet(s)
         /\ \A x \in DOMAIN answered : answered'[x] = (answered[x] \cup ToSet(s)) \ {x}
         /\ \A x \in ToSet(s) \ DOMAIN answered : answered'[x] = Behind(s, x)
         /\ \A x \in DOMAIN answered' : IsFiniteSet(answered'[x]) /\ x \notin answered'[x]
         /\ \A x \in DOMAIN answered : Cardinality(answered[x]) <= Cardinality(answered'[x])
<1>1. /\ DOMAIN answered' = DOMAIN answered \cup ToSet(s)
      /\ \A x \in DOMAIN answered : answered'[x] = (answered[x] \cup ToSet(s)) \ {x}
      /\ \A x \in ToSet(s) \ DOMAIN answered : answered'[x] = Behind(s, x)
  BY DEF Answers
<1>2. IsFiniteSet(ToSet(s))
  BY RangeIsFinite
<1>3. ASSUME NEW x \in DOMAIN answered
      PROVE  /\ IsFiniteSet(answered'[x]) /\ x \notin answered'[x]
             /\ Cardinality(answered[x]) <= Cardinality(answered'[x])
  <2>1. IsFiniteSet(answered[x]) /\ x \notin answered[x]
    BY DEF Lasting
  <2>2. IsFiniteSet(answered[x] \cup ToSet(s))
    BY <1>2, <2>1, FS_Union
  <2>3. IsFiniteSet(answered'[x])
    <3>1. answered'[x] \in SUBSET (answered[x] \cup ToSet(s))
      BY <1>1
    <3> QED BY <2>2, <3>1, FS_Subset
  <2>4. answered[x] \in SUBSET answered'[x]
    BY <1>1, <2>1
  <2> QED BY <1>1, <2>3, <2>4, FS_Subset
<1>4. ASSUME NEW x \in ToSet(s) \ DOMAIN answered PROVE IsFiniteSet(answered'[x]) /\ x \notin answered'[x]
  <2>1. Behind(s, x) \in SUBSET ToSet(s)
    BY DEF Behind, ToSet
  <2>2. x \notin Behind(s, x)
    BY DEF Behind
  <2> QED BY <1>1, <1>2, <2>1, <2>2, FS_Subset
<1> QED BY <1>1, <1>3, <1>4

LEMMA LostMemory ==
  ASSUME Memory, NEW s \in Seq(Ids), Answers(s), forgot' = forgot \cup ToSet(s),
         UNCHANGED <<handled, again>>, Listed'
  PROVE  Memory'
<1>1. Lasting
  BY DEF Memory
<1>2. ASSUME NEW x \in DOMAIN answered' \ forgot', Cardinality(answered'[x]) < Limit
      PROVE  x \in ToSet(handled) /\ Behind(handled, x) \subseteq answered'[x]
  <2>1. x \in DOMAIN answered \ forgot /\ x \notin ToSet(s)
    BY <1>1, AnswersMore
  <2>2. IsFiniteSet(answered[x]) /\ IsFiniteSet(answered'[x]) /\ x \notin answered[x]
        /\ Cardinality(answered[x]) <= Cardinality(answered'[x])
        /\ answered'[x] = (answered[x] \cup ToSet(s)) \ {x}
    BY <1>1, <1>2, <2>1, AnswersMore DEF Lasting
  <2>3. Cardinality(answered[x]) < Limit
    BY <1>2, <2>2, FS_CardinalityType, IntakeAssumption
  <2> QED BY <1>1, <2>1, <2>2, <2>3 DEF Lasting
<1>3. Lasting'
  BY <1>1, <1>2, AnswersMore DEF Lasting
<1> QED BY <1>3 DEF Memory, ExecutedOnce

LEMMA EndPassMemory == Memory /\ EndPass => Memory'
<1> SUFFICES ASSUME Memory, EndPass PROVE Memory'
  OBVIOUS
<1>1. /\ ids \in Seq(Ids) /\ handled \in Seq(Ids) /\ Injective(handled) /\ Lasting
      /\ Answers(ids) /\ again' = again /\ ids' = <<>> /\ before'.ids = 0
  BY DEF EndPass, Memory, Listed
<1>2. ids' \in Seq(Ids) /\ before'.ids \in 0..Len(ids')
  BY <1>1
<1>3. CASE handled' = handled /\ forgot' = forgot \cup ToSet(ids)
  <2>1. Listed'
    BY <1>2, <1>3 DEF Memory, Listed
  <2> QED BY <1>1, <1>3, <2>1, LostMemory
<1>4. CASE handled' = Remembered(handled, ids) /\ forgot' = forgot
  <2> DEFINE F == Merge(handled, ids)
  <2>1. F \in Seq(Ids) /\ Merged(handled, ids, Len(ids), F)
    BY <1>1, AllMerged
  <2>2. handled' = Newest(F, Limit)
    BY <1>4 DEF Remembered, Merge
  <2> HIDE DEF F
  <2>3. Injective(F) /\ Limit \in Nat \ {0}
    BY <2>1, IntakeAssumption DEF Merged
  <2>4. Listed'
    BY <1>2, <2>1, <2>2, <2>3, NewestKeeps DEF Listed
  <2>5. ToSet(handled') \subseteq DOMAIN answered'
    <3>1. ToSet(handled') \subseteq ToSet(handled) \cup ToSet(ids)
      BY <1>1, <2>1, <2>2, <2>3, NewestKeeps, BehindMerged
    <3> QED BY <1>1, <3>1, AnswersMore DEF Lasting
  <2>6. ASSUME NEW x \in DOMAIN answered' \ forgot', Cardinality(answered'[x]) < Limit
        PROVE  x \in ToSet(handled') /\ Behind(handled', x) \subseteq answered'[x]
    <3>1. x \in ToSet(F) /\ Behind(F, x) \subseteq answered'[x]
      <4>1. CASE x \in DOMAIN answered
        <5>1. IsFiniteSet(answered[x]) /\ IsFiniteSet(answered'[x])
              /\ Cardinality(answered[x]) <= Cardinality(answered'[x])
              /\ answered'[x] = (answered[x] \cup ToSet(ids)) \ {x}
          BY <1>1, <4>1, AnswersMore DEF Lasting
        <5>2. Cardinality(answered[x]) < Limit
          BY <2>3, <2>6, <5>1, FS_CardinalityType
        <5>3. x \in ToSet(handled) /\ Behind(handled, x) \subseteq answered[x]
          BY <1>1, <1>4, <2>6, <4>1, <5>2 DEF Lasting
        <5>4. /\ x \in ToSet(F) /\ x \notin Behind(F, x)
                /\ Behind(F, x) \subseteq Behind(handled, x) \cup ToSet(ids)
          BY <1>1, <2>1, <5>3, BehindMerged
        <5> QED BY <5>1, <5>3, <5>4
      <4>2. CASE x \notin DOMAIN answered
        <5>1. x \in ToSet(ids) /\ answered'[x] = Behind(ids, x)
          BY <1>1, <2>6, <4>2, AnswersMore
        <5>2. x \notin ToSet(handled)
          BY <1>1, <4>2 DEF Lasting
        <5>3. Behind(F, x) \subseteq Behind(ids, x)
          BY <1>1, <2>1, <5>2, BehindMerged
        <5>4. x \in ToSet(F)
          <6>1. PICK i \in 1..Len(ids) : x = ids[i]
            BY <1>1, <5>1 DEF ToSet
          <6>2. x # NoId
            BY <1>1, <6>1 DEF Ids
          <6> QED BY <2>1, <6>1, <6>2 DEF Merged
        <5> QED BY <5>1, <5>3, <5>4
      <4> QED BY <4>1, <4>2
    <3>2. IsFiniteSet(answered'[x]) /\ Cardinality(answered'[x]) \in Nat
      BY <1>1, <2>6, AnswersMore, FS_CardinalityType
    <3>3. x \in ToSet(Newest(F, Limit))
      <4> SUFFICES ASSUME x \notin ToSet(Newest(F, Limit)) PROVE FALSE
        OBVIOUS
      <4>1. Cardinality(answered'[x]) >= Limit
        BY <2>1, <2>3, <3>1, <3>2, NewestKeeps
      <4> QED BY <2>3, <2>6, <3>2, <4>1
    <3>4. Behind(Newest(F, Limit), x) \subseteq Behind(F, x)
      BY <2>1, <2>3, NewestKeeps
    <3> QED BY <2>2, <3>1, <3>3, <3>4
  <2>7. Lasting'
    BY <1>1, <2>5, <2>6, AnswersMore DEF Lasting
  <2> QED BY <1>1, <1>4, <2>4, <2>7 DEF Memory, ExecutedOnce
<1> QED BY <1>3, <1>4 DEF EndPass

LEMMA HeavyShortMemory == Memory /\ HeavyShort => Memory'
<1> SUFFICES ASSUME Memory, HeavyShort PROVE Memory'
  OBVIOUS
<1> DEFINE lost == SubSeq(ids, before.ids + 1, Len(ids))
           kept == SubSeq(ids, 1, before.ids)
<1>1. /\ Answers(lost) /\ forgot' = forgot \cup ToSet(lost) /\ ids' = kept
      /\ UNCHANGED <<handled, again, before>>
  <2>1. Answers(lost) /\ forgot' = forgot \cup ToSet(lost)
    BY Zenon DEF HeavyShort
  <2>2. ids' = kept
    BY Zenon DEF HeavyShort
  <2>3. UNCHANGED <<handled, again, before>>
    BY DEF HeavyShort
  <2> QED BY <2>1, <2>2, <2>3
<1>2. ids \in Seq(Ids) /\ before.ids \in 0..Len(ids) /\ Len(ids) \in Nat
  BY DEF Memory, Listed
<1>3. lost \in Seq(Ids) /\ Len(lost) = Len(ids) - before.ids
      /\ \A i \in 1..Len(lost) : lost[i] = ids[before.ids + i]
  <2>1. before.ids \in Nat /\ before.ids + 1 \in 1..(Len(ids) + 1)
    BY <1>2
  <2>2. lost \in Seq(Ids) /\ Len(lost) = Len(ids) - before.ids
    BY <1>2, <2>1
  <2>3. \A i \in 1..(Len(ids) - before.ids) : lost[i] = ids[before.ids + i]
    BY <1>2, <2>1
  <2> QED BY <2>2, <2>3
<1>4. kept \in Seq(Ids) /\ Len(kept) = before.ids /\ \A i \in 1..Len(kept) : kept[i] = ids[i]
  BY <1>2
<1> HIDE DEF lost, kept
<1>5. Listed'
  BY <1>1, <1>2, <1>4 DEF Memory, Listed
<1> QED BY <1>1, <1>3, <1>5, LostMemory

LEMMA BootMemory == ASSUME NEW saved, Boot(saved) PROVE Memory'
<1>1. ids' = <<>> /\ before'.ids = 0 /\ handled' = <<>> /\ answered' = <<>> /\ again' = {}
  BY DEF Boot
<1>2. ids' \in Seq(Ids) /\ handled' \in Seq(Ids) /\ Injective(handled')
  BY <1>1 DEF Injective
<1>3. DOMAIN answered' = {} /\ ToSet(handled') = {} /\ Len(handled') = 0 /\ Len(ids') = 0
  BY <1>1 DEF ToSet
<1> QED BY <1>1, <1>2, <1>3, IntakeAssumption DEF Memory, Listed, Lasting, ExecutedOnce

-----------------------------------------------------------------------------
(* Which steps give a command its result.                                  *)
LEMMA LightReplies ==
  ASSUME Reject \/ RestartOnly \/ Switch \/ SessionLight \/ ConfigLight \/ ConfigNotSaved \/ ConfigShort
         \/ OffsetLight \/ OffsetShort \/ OffsetCut
  PROVE  Replies
<1>1. CASE Reject \/ Switch
  BY <1>1 DEF Reject, Switch, AtWork, Command, Answer, Replies
<1>2. CASE RestartOnly
  BY <1>2 DEF RestartOnly, AtWork, Command, Answer, Replies, Executable
<1>3. CASE SessionLight
  BY <1>3 DEF SessionLight, Controls, AtWork, Command, Answer, Replies, Rejected
<1>4. CASE ConfigLight \/ ConfigNotSaved \/ ConfigShort
  BY <1>4 DEF ConfigLight, ConfigNotSaved, ConfigShort, Writable, AtWork, Command, Answer, Replies, Executable
<1>5. CASE OffsetLight \/ OffsetShort \/ OffsetCut
  BY <1>5 DEF OffsetLight, OffsetShort, OffsetCut, Calibrating, AtWork, Command, Answer, Replies
<1> QED BY <1>1, <1>2, <1>3, <1>4, <1>5

LEMMA HeavyReplies ==
  ASSUME SessionHeavy \/ ConfigHeavy \/ ConfigHeavyFails \/ OffsetHeavy \/ Prepare \/ LogsGet
  PROVE  Replies
<1>1. CASE SessionHeavy
  BY <1>1 DEF SessionHeavy, Controls, AtWork, Command, Answer, Replies, Rejected
<1>2. CASE ConfigHeavy \/ ConfigHeavyFails
  BY <1>2 DEF ConfigHeavy, ConfigHeavyFails, Saving, AtWork, Command, Answer, Replies, Executable
<1>3. CASE OffsetHeavy \/ Prepare \/ LogsGet
  BY <1>3 DEF OffsetHeavy, Prepare, LogsGet, AtWork, Command, Answer, Replies
<1> QED BY <1>1, <1>2, <1>3

LEMMA HandOverMemory == Memory /\ HandOver => Memory'
<1> SUFFICES ASSUME Memory, HandOver PROVE Memory'
  OBVIOUS
<1>1. UNCHANGED <<ids, handled, answered, forgot, again>> /\ before'.ids = Len(ids)
  BY DEF HandOver
<1>2. Len(ids) \in Nat
  BY DEF Memory, Listed
<1> QED BY <1>1, <1>2 DEF Memory, Listed, Lasting, ExecutedOnce

LEMMA MemoryInductive == Memory /\ Queues /\ [Next]_vars => Memory'
<1> SUFFICES ASSUME Memory, Queues, [Next]_vars PROVE Memory'
  OBVIOUS
<1>1. CASE Reset \/ Reboot \/ ConfigFatal \/ ConfigHeavyFatal
  BY <1>1, BootMemory DEF Reset, Reboot, ConfigFatal, ConfigHeavyFatal
<1>2. CASE EndPass \/ HeavyShort \/ HandOver
  BY <1>2, EndPassMemory, HeavyShortMemory, HandOverMemory
<1>3. CASE Halt \/ HaltHeavy \/ PassOver \/ Resubscribe \/ Drain \/ NoSample \/ Sample \/ LastSample \/ Sync
           \/ EnterHalt \/ Halted \/ UNCHANGED vars \/ \E m \in Messages : Deliver(m)
  <2>1. Quiet
    BY <1>3 DEF Quiet, Halt, HaltHeavy, PassOver, Resubscribe, Drain, NoSample, Sample, LastSample, Sync,
                EnterHalt, Halted, Deliver
  <2> QED BY <2>1, QuietMemory
<1>4. CASE Replies
  BY <1>4, RepliesMemory
<1> QED BY <1>1, <1>2, <1>3, <1>4, LightReplies, HeavyReplies DEF Next, Light, Heavy, Loop

-----------------------------------------------------------------------------
(* Each command of the batch is still to be answered, those the pass drops *)
(* with a halt or a shortage of memory apart; more is owed only when the   *)
(* heavy pass has passed over one, with another base topic in force.       *)
Owing ==
  /\ deliveries \in 0..MaxDeliveries /\ Len(queue) + Len(batch) <= deliveries
  /\ owed \in 0..deliveries
  /\ pc = "work" => Len(batch) <= owed /\ owed + Len(queue) <= deliveries
  /\ pc = "work" /\ Len(batch) < owed => path = "heavy" /\ copies.current[Base] # base
  /\ Answered

LEMMA AnswerOwing ==
  ASSUME Owing, Queues, NEW m, NEW n, batch # <<>>, pc = "work", Answer(m, n),
         Heard \/ copies'.current[Base] = copies.current[Base]
  PROVE  Owing'
<1>1. Len(Tail(batch)) = Len(batch) - 1 /\ Len(batch) \in Nat \ {0} /\ Len(queue) \in Nat
  BY DEF Queues
<1>2. /\ batch' = Tail(batch) /\ owed' = owed - 1
      /\ UNCHANGED <<queue, path, pc, base, deliveries>>
  BY DEF Answer
<1>3. ASSUME Len(batch') < owed' PROVE path' = "heavy" /\ copies'.current[Base] # base'
  <2>1. path = "heavy" /\ copies.current[Base] # base
    BY <1>1, <1>2, <1>3 DEF Owing
  <2> QED BY <1>2, <2>1 DEF Heard, Current
<1> QED BY <1>1, <1>2, <1>3 DEF Owing, Answered

(* A relay's command leaves the base topic alone, in either of its ends.   *)
LEMMA SwitchBase ==
  ASSUME Sound, Queues, Switch, path = "heavy"
  PROVE  copies'.current[Base] = copies.current[Base]
<1>1. batch # <<>> /\ Kind[Command] = "switch"
  BY DEF Switch, AtWork, Command
<1>2. Base \notin KeysOf(Updates[Command]) /\ Base \in Keys
  BY <1>1, OneKey, IntakeAssumption
<1>3. Table(copies.current) /\ copies = [current |-> copies.current, last |-> copies.last]
  BY DEF Sound, Shaped
<1>4. Put(copies.current, Updates[Command])[Base] = copies.current[Base]
  BY <1>2, <1>3, PutReads
<1>5. \/ copies' = [current |-> Put(copies.current, Updates[Command]),
                   last |-> Put(copies.current, Updates[Command])]
      \/ copies' = [copies EXCEPT !.last = copies.current]
  BY DEF Switch, Keeps
<1> QED BY <1>3, <1>4, <1>5

LEMMA OwingInductive == Owing /\ Queues /\ Sound /\ [Next]_vars => Owing'
<1> SUFFICES ASSUME Owing, Queues, Sound, [Next]_vars PROVE Owing'
  OBVIOUS
<1>1. /\ Len(queue) \in Nat /\ Len(batch) \in Nat /\ MaxDeliveries \in Nat /\ deliveries \in Nat /\ owed \in Nat
      /\ batch # <<>> => Len(Tail(batch)) = Len(batch) - 1 /\ Len(batch) > 0
  BY IntakeAssumption DEF Queues, Owing
<1>2. CASE Reset \/ Reboot \/ ConfigFatal \/ ConfigHeavyFatal
  <2>1. PICK saved : Boot(saved)
    BY <1>2 DEF Reset, Reboot, ConfigFatal, ConfigHeavyFatal
  <2>2. queue' = <<>> /\ batch' = <<>> /\ pc' = "intake" /\ owed' = 0 /\ deliveries' = deliveries
    BY <2>1 DEF Boot
  <2> QED BY <1>1, <2>2 DEF Owing, Answered
<1>3. CASE Reject \/ RestartOnly \/ SessionLight \/ ConfigLight \/ ConfigNotSaved \/ ConfigShort
           \/ OffsetLight \/ OffsetShort \/ SessionHeavy \/ ConfigHeavy \/ ConfigHeavyFails \/ OffsetHeavy
           \/ Prepare \/ LogsGet
  <2>1. batch # <<>> /\ pc = "work" /\ \E m, n : Answer(m, n)
    BY <1>3 DEF Reject, RestartOnly, SessionLight, ConfigLight, ConfigNotSaved, ConfigShort,
       OffsetLight, OffsetShort, SessionHeavy, ConfigHeavy, ConfigHeavyFails, OffsetHeavy, Prepare, LogsGet,
       Controls, Writable, Calibrating, Saving, AtWork
  <2>2. CASE Heard
    BY <2>1, <2>2, AnswerOwing
  <2>3. CASE ~Heard
    <3>1. Reject /\ Kind[Command] = "switch"
      BY <1>3, <2>3 DEF Reject, RestartOnly, SessionLight, ConfigLight, ConfigNotSaved, ConfigShort,
         OffsetLight, OffsetShort, SessionHeavy, ConfigHeavy, ConfigHeavyFails, OffsetHeavy, Prepare, LogsGet,
         Controls, Writable, Calibrating, Saving, AtWork, Command
    <3>2. FALSE
      BY <3>1 DEF Reject, Rejected, Unwritable
    <3> QED BY <3>2
  <2> QED BY <2>2, <2>3
<1>4. CASE Switch
  <2>1. batch # <<>> /\ pc = "work" /\ (Heard \/ path = "heavy") /\ \E m, n : Answer(m, n)
    BY <1>4 DEF Switch, AtWork
  <2> QED BY <1>4, <2>1, SwitchBase, AnswerOwing
<1>5. CASE Halt \/ HeavyShort
  <2>1. /\ batch' = <<>> /\ owed' = 0 /\ pc = "work" /\ pc' = pc /\ deliveries' = deliveries
        /\ queue' = queue \/ queue' = <<>>
    BY <1>5 DEF Halt, Stopped, HeavyShort, AtWork
  <2> QED BY <1>1, <2>1 DEF Owing, Answered
<1>6. CASE OffsetCut
  <2>1. /\ pc = "work" /\ batch # <<>> /\ path = "light" /\ pc' = pc /\ deliveries' = deliveries
        /\ queue' = Tail(batch) \o queue /\ batch' = <<>> /\ owed' = owed - Len(batch)
    BY <1>6 DEF OffsetCut, Calibrating, AtWork
  <2>2. Len(queue') = Len(batch) - 1 + Len(queue)
    BY <1>1, <2>1 DEF Queues
  <2>3. owed' = 0
    BY <1>1, <2>1 DEF Owing
  <2> QED BY <1>1, <2>1, <2>2, <2>3 DEF Owing, Answered
<1>7. CASE HandOver
  <2>1. /\ pc = "work" /\ path = "light" /\ pc' = pc /\ deliveries' = deliveries
        /\ queue' = <<>> /\ batch' = batch \o queue /\ owed' = owed + Len(queue)
    BY <1>7 DEF HandOver, Restored
  <2>2. Len(batch') = Len(batch) + Len(queue) /\ owed = Len(batch)
    BY <1>1, <2>1 DEF Queues, Owing
  <2> QED BY <1>1, <2>1, <2>2 DEF Owing, Answered
<1>8. CASE HaltHeavy
  <2>1. /\ pc = "work" /\ batch # <<>> /\ path = "heavy" /\ copies.current[Base] = base
        /\ batch' = Tail(batch) /\ owed' = owed - 1
        /\ UNCHANGED <<pc, path, base, copies, deliveries, queue>>
    BY <1>8 DEF HaltHeavy, AtWork, Heard, Current
  <2> QED BY <1>1, <2>1 DEF Owing, Answered
<1>9. CASE PassOver
  <2>1. /\ pc = "work" /\ batch # <<>> /\ path = "heavy" /\ copies.current[Base] # base
        /\ batch' = Tail(batch)
        /\ UNCHANGED <<pc, path, base, copies, owed, deliveries, queue>>
    BY <1>9 DEF PassOver, Heard, Current
  <2> QED BY <1>1, <2>1 DEF Owing, Answered
<1>10. CASE Drain
  <2>1. /\ pc' = "work" /\ batch' = queue /\ queue' = <<>> /\ owed' = Len(queue) /\ deliveries' = deliveries
    BY <1>10 DEF Drain
  <2> QED BY <1>1, <2>1 DEF Owing, Answered
<1>11. CASE EndPass
  <2>1. /\ pc = "work" /\ batch = <<>> /\ live' = IF path = "heavy" THEN copies.last ELSE live
        /\ UNCHANGED <<queue, batch, base, owed, deliveries>> /\ pc' = "calibrate"
    BY <1>11 DEF EndPass, Adopted
  <2>2. ASSUME owed # 0 PROVE live'[Base] # base
    <3>1. Len(batch) < owed
      BY <1>1, <2>1, <2>2
    <3>2. path = "heavy" /\ copies.current[Base] # base
      BY <2>1, <3>1 DEF Owing
    <3>3. copies.last[Base] = copies.current[Base]
      BY <3>2, DurableIsKey, IntakeAssumption DEF Sound, Told
    <3> QED BY <2>1, <3>2, <3>3
  <2> QED BY <1>1, <2>1, <2>2 DEF Owing, Answered
<1>12. CASE EnterHalt \/ NoSample \/ Sample \/ LastSample \/ Sync \/ Resubscribe
  <2>1. /\ UNCHANGED <<queue, batch, owed, deliveries>>
        /\ pc' \in {"halted", "sync", "intake"}
    BY <1>12 DEF EnterHalt, NoSample, Sample, LastSample, Sync, Resubscribe
  <2> QED BY <1>1, <2>1 DEF Owing, Answered
<1>13. CASE Halted \/ UNCHANGED vars
  BY <1>13 DEF Halted, Owing, Answered
<1>14. ASSUME NEW m \in Messages, Deliver(m) PROVE Owing'
  <2>1. Len(queue') = Len(queue) + 1 /\ deliveries' = deliveries + 1 /\ deliveries < MaxDeliveries
        /\ pc = "intake" /\ UNCHANGED <<batch, pc, owed>>
    BY <1>14 DEF Deliver, Queues
  <2> QED BY <1>1, <2>1 DEF Owing, Answered
<1> QED BY <1>2, <1>3, <1>4, <1>5, <1>6, <1>7, <1>8, <1>9, <1>10, <1>11, <1>12, <1>13, <1>14
        DEF Next, Light, Heavy, Loop

-----------------------------------------------------------------------------
(* Types.                                                                  *)
Copies == [current : Settings, last : Settings]
ConfigTyped ==
  /\ path \in {"light", "heavy"} /\ live \in Settings
  /\ (path = "light" => copies = NoCopies) /\ (path = "heavy" => copies \in Copies)
FlashTyped == disk \in Settings /\ reported \in Settings /\ {token, prepared} \subseteq BOOLEAN
TurnTyped ==
  /\ pc \in {"intake", "work", "calibrate", "sync", "halted"}
  /\ {reboot, halting} \subseteq BOOLEAN /\ before.reboot \in BOOLEAN
Typed == ConfigTyped /\ FlashTyped /\ TurnTyped

LEMMA AppliesTyped ==
  ASSUME ConfigTyped, NEW us \in Seq(Updating), Applies(us), path' = path
  PROVE  ConfigTyped'
<1>1. CASE path = "light"
  BY <1>1, InForceTyped DEF ConfigTyped, Applies
<1>2. CASE path = "heavy"
  <2>1. copies.current \in Settings /\ live' = live
        /\ copies' = [current |-> InForce(copies.current, us), last |-> InForce(copies.current, us)]
    BY <1>2 DEF ConfigTyped, Copies, Applies
  <2>2. InForce(copies.current, us) \in Settings
    BY <2>1, InForceTyped
  <2> QED BY <1>2, <2>1, <2>2 DEF ConfigTyped, Copies
<1> QED BY <1>1, <1>2 DEF ConfigTyped

LEMMA KeepsTyped == ASSUME ConfigTyped, Keeps, path' = path PROVE ConfigTyped'
BY DEF ConfigTyped, Copies, Keeps

LEMMA ReportsTyped ==
  ASSUME FlashTyped, NEW us \in Seq(Updating), Reports(us) \/ reported' = reported,
         disk' = disk \/ disk' = Put(disk, us), token' \in {token, FALSE}, prepared' = prepared
  PROVE  FlashTyped'
BY PutTyped DEF FlashTyped, Reports

LEMMA BootTyped == ASSUME Typed, NEW saved \in Settings, Boot(saved) PROVE Typed'
<1>1. /\ disk' = saved /\ live' = saved /\ copies' = NoCopies /\ path' = "light" /\ pc' = "intake"
      /\ before' = [ids |-> 0, reboot |-> FALSE] /\ reboot' = FALSE /\ halting' = FALSE /\ prepared' = FALSE
      /\ token' = token /\ reported' = [k \in Keys |-> IF k \in Durable THEN reported[k] ELSE saved[k]]
  BY DEF Boot
<1>2. reported' \in Settings
  BY <1>1, DurableIsKey, IntakeAssumption DEF Typed, FlashTyped, Settings
<1> QED BY <1>1, <1>2 DEF Typed, ConfigTyped, FlashTyped, TurnTyped

LEMMA CommandUpdates ==
  ASSUME Queues, batch # <<>>
  PROVE  /\ Command \in Messages /\ Updates[Command] \in Seq(Updating) /\ Known(Command) \in Seq(Updating)
         /\ \A k \in 0..Len(Known(Command)) : SubSeq(Known(Command), 1, k) \in Seq(Updating)
<1>1. Command \in Messages
  BY DEF Queues, Command
<1> QED BY <1>1, UpdatesTyped

LEMMA LightTyped ==
  ASSUME Typed, Queues, Reject \/ RestartOnly \/ SessionLight \/ ConfigLight \/ ConfigNotSaved \/ ConfigShort
                        \/ OffsetLight \/ OffsetShort \/ OffsetCut
  PROVE  Typed'
<1> DEFINE us == Updates[Command]
<1>1. CASE Reject \/ RestartOnly \/ SessionLight
  <2>1. /\ Keeps /\ UNCHANGED <<path, pc, disk, reported, token, prepared, before, halting>>
        /\ reboot' \in {reboot, TRUE}
    BY <1>1 DEF Reject, RestartOnly, SessionLight, Controls, Answer
  <2> QED BY <2>1, KeepsTyped DEF Typed, FlashTyped, TurnTyped
<1>2. CASE ConfigLight
  <2>1. /\ batch # <<>> /\ Applies(us) /\ Reports(us) /\ UNCHANGED <<path, pc, prepared, before, halting>>
        /\ disk' = disk \/ disk' = Put(disk, us)
        /\ token' \in {token, FALSE} /\ reboot' = (reboot \/ Restarting(Command))
    BY <1>2 DEF ConfigLight, Writable, AtWork, Answer
  <2>2. us \in Seq(Updating)
    BY <2>1, CommandUpdates
  <2> HIDE DEF us
  <2>3. ConfigTyped' /\ FlashTyped'
    BY <2>1, <2>2, AppliesTyped, ReportsTyped DEF Typed
  <2> QED BY <2>1, <2>3 DEF Typed, TurnTyped, Restarting
<1>3. CASE ConfigNotSaved
  BY <1>3 DEF ConfigNotSaved, Answer, Typed, ConfigTyped, FlashTyped, TurnTyped
<1>4. CASE ConfigShort \/ OffsetShort \/ OffsetCut
  <2>1. /\ batch # <<>> /\ UNCHANGED <<path, pc, copies, reported, token, prepared, reboot, before, halting>>
        /\ live' = live \/ live' = Put(live, us) \/ live' = InForce(live, us)
        /\ disk' = disk \/ disk' = Put(disk, us)
    BY <1>4 DEF ConfigShort, OffsetShort, OffsetCut, Writable, Calibrating, AtWork, Answer
  <2>2. us \in Seq(Updating)
    BY <2>1, CommandUpdates
  <2> HIDE DEF us
  <2>3. ConfigTyped' /\ FlashTyped'
    BY <2>1, <2>2, PutTyped, InForceTyped DEF Typed, ConfigTyped, FlashTyped
  <2> QED BY <2>1, <2>3 DEF Typed, TurnTyped
<1>5. CASE OffsetLight
  <2>1. /\ batch # <<>> /\ Applies(us) /\ Reports(us)
        /\ UNCHANGED <<path, pc, token, prepared, reboot, before, halting>>
        /\ disk' = disk \/ disk' = Put(disk, us)
    BY <1>5 DEF OffsetLight, Calibrating, AtWork, Answer
  <2>2. us \in Seq(Updating)
    BY <2>1, CommandUpdates
  <2> HIDE DEF us
  <2>3. ConfigTyped' /\ FlashTyped'
    BY <2>1, <2>2, AppliesTyped, ReportsTyped DEF Typed
  <2> QED BY <2>1, <2>3 DEF Typed, TurnTyped
<1> QED BY <1>1, <1>2, <1>3, <1>4, <1>5

LEMMA SwitchTyped == ASSUME Typed, Queues, Switch PROVE Typed'
<1> DEFINE us == Updates[Command]
<1>1. /\ batch # <<>> /\ UNCHANGED <<path, pc, token, prepared, reboot, before, halting>>
      /\ disk' = disk \/ disk' = Put(disk, us)
      /\ live' = live \/ live' = Put(live, us)
      /\ Reports(us) \/ reported' = reported
      /\ path = "light" => copies' = copies
      /\ path = "heavy" =>
           \/ copies' = [current |-> Put(copies.current, us), last |-> Put(copies.current, us)]
           \/ copies' = [copies EXCEPT !.last = copies.current]
  BY DEF Switch, AtWork, Answer, Keeps
<1>2. us \in Seq(Updating)
  BY <1>1, CommandUpdates
<1> HIDE DEF us
<1>3. FlashTyped'
  BY <1>1, <1>2, ReportsTyped DEF Typed
<1>4. live' \in Settings
  BY <1>1, <1>2, PutTyped DEF Typed, ConfigTyped
<1>5. path = "heavy" => copies' \in Copies
  <2> SUFFICES ASSUME path = "heavy" PROVE copies' \in Copies
    OBVIOUS
  <2>1. copies \in Copies /\ copies.current \in Settings
    BY DEF Typed, ConfigTyped, Copies
  <2>2. Put(copies.current, us) \in Settings
    BY <1>2, <2>1, PutTyped
  <2> QED BY <1>1, <2>1, <2>2 DEF Copies
<1> QED BY <1>1, <1>3, <1>4, <1>5 DEF Typed, ConfigTyped, TurnTyped

LEMMA HeavyTyped ==
  ASSUME Typed, Queues,
         SessionHeavy \/ ConfigHeavy \/ ConfigHeavyFails \/ HaltHeavy \/ PassOver \/ OffsetHeavy \/ Prepare
         \/ LogsGet
  PROVE  Typed'
<1>1. CASE SessionHeavy \/ LogsGet \/ Prepare
  <2>1. /\ Keeps /\ UNCHANGED <<path, pc, disk, reported, token, before, halting>>
        /\ reboot' \in {reboot, TRUE} /\ prepared' \in {prepared, TRUE}
    BY <1>1 DEF SessionHeavy, Controls, LogsGet, Prepare, Answer
  <2> QED BY <2>1, KeepsTyped DEF Typed, FlashTyped, TurnTyped
<1>2. CASE ConfigHeavy
  <2>1. PICK k \in 1..Len(Known(Command)) :
          /\ disk' = Put(disk, SubSeq(Known(Command), 1, k))
          /\ Applies(SubSeq(Known(Command), 1, k)) /\ Reports(SubSeq(Known(Command), 1, k))
    BY <1>2 DEF ConfigHeavy
  <2> DEFINE us == SubSeq(Known(Command), 1, k)
  <2>2. /\ batch # <<>> /\ UNCHANGED <<path, pc, prepared, before, halting>>
        /\ token' = FALSE /\ reboot' = (reboot \/ Restarting(Command))
    BY <1>2 DEF ConfigHeavy, Answer
  <2>3. us \in Seq(Updating)
    BY <2>2, CommandUpdates
  <2>4. disk' = Put(disk, us) /\ Applies(us) /\ Reports(us)
    BY <2>1
  <2> HIDE DEF us
  <2>5. ConfigTyped' /\ FlashTyped'
    BY <2>2, <2>3, <2>4, AppliesTyped, ReportsTyped DEF Typed
  <2> QED BY <2>2, <2>5 DEF Typed, TurnTyped, Restarting
<1>3. CASE ConfigHeavyFails
  <2>1. PICK k \in 0..Len(Known(Command)) : disk' = Put(disk, SubSeq(Known(Command), 1, k))
    BY <1>3 DEF ConfigHeavyFails
  <2>2. batch # <<>> /\ Keeps /\ UNCHANGED <<path, pc, reported, token, prepared, reboot, before, halting>>
    BY <1>3 DEF ConfigHeavyFails, Answer
  <2>3. disk' \in Settings
    BY <2>1, <2>2, CommandUpdates, PutTyped DEF Typed, FlashTyped
  <2> QED BY <2>2, <2>3, KeepsTyped DEF Typed, FlashTyped, TurnTyped
<1>4. CASE HaltHeavy \/ PassOver
  BY <1>4 DEF HaltHeavy, PassOver, Typed, ConfigTyped, FlashTyped, TurnTyped
<1>5. CASE OffsetHeavy
  <2> DEFINE us == Updates[Command]
  <2>1. /\ batch # <<>> /\ path = "heavy" /\ Reports(us)
        /\ UNCHANGED <<path, pc, live, token, prepared, reboot, before, halting>>
        /\ disk' = disk \/ disk' = Put(disk, us)
        /\ copies' = [copies EXCEPT !.last = Put(copies.current, us)]
    BY <1>5 DEF OffsetHeavy, AtWork, Answer
  <2>2. us \in Seq(Updating)
    BY <2>1, CommandUpdates
  <2> HIDE DEF us
  <2>3. copies \in Copies /\ Put(copies.current, us) \in Settings
    BY <2>1, <2>2, PutTyped DEF Typed, ConfigTyped, Copies
  <2>4. ConfigTyped'
    BY <2>1, <2>3 DEF Typed, ConfigTyped, Copies
  <2>5. FlashTyped'
    BY <2>1, <2>2, ReportsTyped DEF Typed
  <2> QED BY <2>1, <2>4, <2>5 DEF Typed, TurnTyped
<1> QED BY <1>1, <1>2, <1>3, <1>4, <1>5

LEMMA HeavyShortTyped == ASSUME Typed, Queues, HeavyShort PROVE Typed'
<1>1. /\ batch # <<>> /\ path = "heavy"
      /\ UNCHANGED <<path, pc, live, reported, token, prepared, before, halting>>
      /\ copies' = [current |-> live, last |-> live] /\ reboot' = before.reboot
  BY DEF HeavyShort
<1>2. disk' = disk \/ disk' = Put(disk, Known(Command))
  BY DEF HeavyShort
<1>3. disk' \in Settings
  BY <1>1, <1>2, CommandUpdates, PutTyped DEF Typed, FlashTyped
<1> QED BY <1>1, <1>3 DEF Typed, ConfigTyped, Copies, FlashTyped, TurnTyped

LEMMA SampledTyped ==
  ASSUME Typed, session # Idle => session.samples \in Seq(Int), LastSample
  PROVE  <<<<Ph, Computed(Sampled)>>>> \in Seq(Updating) /\ Computed(Sampled) \in Int
<1>1. /\ session.samples \in Seq(Int) /\ live[Ph] \in Int
      /\ Reference \in Int /\ Ph \in Keys /\ Poison \notin Int
  BY IntakeAssumption DEF LastSample, Typed, ConfigTyped, Settings
<1>2. Sampled \in Seq(Int) /\ Len(Sampled) \in Nat \ {0}
  BY <1>1 DEF Sampled
<1>3. Sum(Sampled) \in Int
  BY <1>2, SumTyped
<1>4. Sum(Sampled) \div Len(Sampled) \in Int
  BY <1>2, <1>3
<1>5. Computed(Sampled) \in Int
  BY <1>1, <1>4 DEF Computed
<1>6. <<Ph, Computed(Sampled)>> \in Updating
  BY <1>1, <1>5 DEF Updating, Values
<1> QED BY <1>5, <1>6

LEMMA LoopTyped ==
  ASSUME Typed, Queues, session # Idle => session.samples \in Seq(Int),
         Halt \/ HandOver \/ Resubscribe \/ Drain \/ EndPass \/ NoSample \/ Sample \/ LastSample \/ Sync
         \/ EnterHalt \/ Halted \/ UNCHANGED vars \/ \E m \in Messages : Deliver(m)
  PROVE  Typed'
<1>1. CASE Halt \/ Resubscribe \/ Drain \/ NoSample \/ Sample \/ Sync \/ EnterHalt \/ Halted \/ UNCHANGED vars
           \/ \E m \in Messages : Deliver(m)
  <2>1. UNCHANGED <<path, live, copies, disk, reported, token, prepared, before>>
    BY <1>1 DEF Halt, Resubscribe, Drain, NoSample, Sample, Sync, EnterHalt, Halted, Deliver
  <2>2. /\ pc' \in {pc, "work", "sync", "intake", "halted"}
        /\ reboot' \in {reboot, FALSE} /\ halting' \in {halting, TRUE}
    BY <1>1 DEF Halt, Resubscribe, Drain, NoSample, Sample, Sync, EnterHalt, Halted, Deliver
  <2> QED BY <2>1, <2>2 DEF Typed, ConfigTyped, FlashTyped, TurnTyped
<1>2. CASE HandOver
  <2>1. UNCHANGED <<pc, live, disk, reported, token, prepared, reboot, halting>> /\ path' = "heavy"
        /\ copies' = [current |-> live, last |-> live] /\ before'.reboot = reboot
    BY <1>2 DEF HandOver
  <2> QED BY <2>1 DEF Typed, ConfigTyped, Copies, FlashTyped, TurnTyped
<1>3. CASE EndPass
  <2>1. /\ UNCHANGED <<disk, reported, token, prepared, reboot, halting>>
        /\ path' = "light" /\ copies' = NoCopies /\ before'.reboot = FALSE /\ pc' = "calibrate"
        /\ live' = IF path = "heavy" THEN copies.last ELSE live
    BY <1>3 DEF EndPass, Adopted
  <2> QED BY <2>1 DEF Typed, ConfigTyped, Copies, FlashTyped, TurnTyped
<1>4. CASE LastSample
  <2> DEFINE us == <<<<Ph, Computed(Sampled)>>>>
  <2>1. /\ UNCHANGED <<path, copies, token, prepared, reboot, before, halting>> /\ pc' = "sync"
        /\ \/ live' = Put(live, us) /\ disk' = Put(disk, us) /\ Reports(us)
           \/ UNCHANGED <<live, disk, reported, doubtful>>
    BY <1>4 DEF LastSample
  <2>2. us \in Seq(Updating)
    BY <1>4, SampledTyped
  <2> HIDE DEF us
  <2>3. ConfigTyped' /\ FlashTyped'
    BY <2>1, <2>2, PutTyped, ReportsTyped DEF Typed, ConfigTyped
  <2> QED BY <2>1, <2>3 DEF Typed, TurnTyped
<1> QED BY <1>1, <1>2, <1>3, <1>4

LEMMA RestartTyped ==
  ASSUME Typed, Queues, Reset \/ Reboot \/ ConfigFatal \/ ConfigHeavyFatal
  PROVE  Typed'
<1>1. CASE Reset \/ Reboot
  BY <1>1, BootTyped DEF Reset, Reboot, Typed, FlashTyped
<1>2. CASE ConfigFatal
  <2>1. batch # <<>> /\ \E saved \in {disk, Put(disk, Updates[Command])} : Boot(saved)
    BY <1>2 DEF ConfigFatal, Writable, AtWork
  <2>2. {disk, Put(disk, Updates[Command])} \subseteq Settings
    BY <2>1, CommandUpdates, PutTyped DEF Typed, FlashTyped
  <2> QED BY <2>1, <2>2, BootTyped
<1>3. CASE ConfigHeavyFatal
  <2>1. batch # <<>> /\ Boot(Put(disk, Known(Command)))
    BY <1>3 DEF ConfigHeavyFatal
  <2>2. Put(disk, Known(Command)) \in Settings
    BY <2>1, CommandUpdates, PutTyped DEF Typed, FlashTyped
  <2> QED BY <2>1, <2>2, BootTyped
<1> QED BY <1>1, <1>2, <1>3

(* The base topic the commands arrive under is one the settings had.       *)
LEMMA BaseFollows == [Next]_vars => base' \in {base, live'[Base]}
<1> SUFFICES ASSUME [Next]_vars PROVE base' \in {base, live'[Base]}
  OBVIOUS
<1>1. CASE Reset \/ Reboot \/ ConfigFatal \/ ConfigHeavyFatal
  BY <1>1 DEF Reset, Reboot, ConfigFatal, ConfigHeavyFatal, Boot
<1>2. CASE Resubscribe
  BY <1>2 DEF Resubscribe
<1>3. CASE Reject \/ RestartOnly \/ Switch \/ SessionLight \/ ConfigLight \/ ConfigNotSaved \/ ConfigShort
           \/ Halt \/ OffsetLight \/ OffsetShort \/ OffsetCut \/ HandOver
  BY <1>3 DEF Reject, RestartOnly, Switch, SessionLight, ConfigLight, ConfigNotSaved, ConfigShort, Halt,
              OffsetLight, OffsetShort, OffsetCut, HandOver, Controls, Answer
<1>4. CASE SessionHeavy \/ ConfigHeavy \/ ConfigHeavyFails \/ HaltHeavy \/ PassOver \/ OffsetHeavy \/ Prepare
           \/ LogsGet \/ HeavyShort
  BY <1>4 DEF SessionHeavy, ConfigHeavy, ConfigHeavyFails, HaltHeavy, PassOver, OffsetHeavy, Prepare, LogsGet,
              HeavyShort, Controls, Answer
<1>5. CASE Drain \/ EndPass \/ NoSample \/ Sample \/ LastSample \/ Sync \/ EnterHalt \/ Halted \/ UNCHANGED vars
           \/ \E m \in Messages : Deliver(m)
  BY <1>5 DEF Drain, EndPass, NoSample, Sample, LastSample, Sync, EnterHalt, Halted, Deliver
<1> QED BY <1>1, <1>2, <1>3, <1>4, <1>5 DEF Next, Light, Heavy, Loop

-----------------------------------------------------------------------------
(* The soil session: until somebody sets another offset, the samples it    *)
(* has taken are those of the offset in force, in either pass.             *)
Sessions == [id : Ids, samples : Seq(Int), moved : BOOLEAN]
Even == path = "heavy" => copies.current[Ph] = live[Ph] /\ copies.last[Ph] = live[Ph]
Steady ==
  \/ session.samples = <<>>
  \/ session.moved
  \/ Even /\ \A i \in 1..Len(session.samples) : session.samples[i] = live[Ph]
Sampling == session = Idle \/ (session \in Sessions /\ Len(session.samples) < SampleCount /\ Steady)

LEMMA SameSampling ==
  ASSUME Sampling, session' = session, live'[Ph] = live[Ph], Even => Even'
  PROVE  Sampling'
BY DEF Sampling, Steady

LEMMA MovesSampling ==
  ASSUME Sampling, NEW us, Moves(us), Ph \notin KeysOf(us) => live'[Ph] = live[Ph] /\ (Even => Even')
  PROVE  Sampling'
<1>1. CASE session = Idle
  BY <1>1 DEF Moves, Sampling
<1>2. CASE session # Idle /\ Ph \in KeysOf(us)
  BY <1>2 DEF Moves, Sampling, Sessions, Steady
<1>3. CASE session # Idle /\ Ph \notin KeysOf(us)
  BY <1>3, SameSampling DEF Moves
<1> QED BY <1>1, <1>2, <1>3

(* Settings without the offset leave it as it is.                          *)
LEMMA PutOther ==
  ASSUME NEW us \in Seq(Updating), NEW c \in Settings, Ph \notin KeysOf(us)
  PROVE  Put(c, us)[Ph] = c[Ph]
BY PutTyped, IntakeAssumption

LEMMA KeepsEven ==
  ASSUME ConfigTyped, Keeps, path' = path
  PROVE  live' = live /\ (Even => Even')
BY DEF ConfigTyped, Copies, Keeps, Even

LEMMA AppliesEven ==
  ASSUME ConfigTyped, NEW us \in Seq(Updating), Applies(us), path' = path, Ph \notin KeysOf(us)
  PROVE  live'[Ph] = live[Ph] /\ (Even => Even')
<1>1. CASE path = "light"
  BY <1>1, InForceTyped DEF ConfigTyped, Applies, Even
<1>2. CASE path = "heavy"
  <2>1. copies.current \in Settings /\ live' = live
        /\ copies' = [current |-> InForce(copies.current, us), last |-> InForce(copies.current, us)]
    BY <1>2 DEF ConfigTyped, Copies, Applies
  <2>2. InForce(copies.current, us)[Ph] = copies.current[Ph]
    BY <2>1, InForceTyped
  <2> QED BY <1>2, <2>1, <2>2 DEF Even
<1> QED BY <1>1, <1>2 DEF ConfigTyped

LEMMA ControlsSampling ==
  ASSUME Sampling, Typed, Queues, SessionLight \/ SessionHeavy
  PROVE  Sampling'
<1>1. /\ batch # <<>> /\ Kind[Command] \in {"start", "cancel"} /\ Keeps /\ path' = path
      /\ session' = session \/ session' = NextSession
  BY DEF SessionLight, SessionHeavy, Controls, AtWork, Command, Answer
<1>2. Command \in Messages
  BY <1>1 DEF Queues, Command
<1>3. Kind[Command] = "start" => Id[Command] \in Ids
  BY <1>2, IntakeAssumption DEF Ids
<1>4. CASE session' = session
  BY <1>1, <1>4, KeepsEven, SameSampling DEF Typed
<1>5. CASE session' = Session(Id[Command]) /\ Kind[Command] = "start"
  <2>1. session' \in Sessions /\ session'.samples = <<>> /\ Len(session'.samples) = 0
    BY <1>3, <1>5 DEF Session, Sessions
  <2> QED BY <2>1, IntakeAssumption DEF Sampling, Steady
<1> QED BY <1>1, <1>4, <1>5 DEF NextSession, Sampling

LEMMA LightSampling ==
  ASSUME Sampling, Typed, Queues,
         Reject \/ RestartOnly \/ ConfigLight \/ ConfigNotSaved \/ ConfigShort \/ OffsetLight \/ OffsetShort
         \/ OffsetCut \/ Halt
  PROVE  Sampling'
<1> DEFINE us == Updates[Command]
<1>1. CASE Reject \/ RestartOnly
  <2>1. Keeps /\ session' = session /\ path' = path
    BY <1>1 DEF Reject, RestartOnly, Answer
  <2> QED BY <2>1, KeepsEven, SameSampling DEF Typed
<1>2. CASE ConfigNotSaved \/ Halt
  BY <1>2, SameSampling DEF ConfigNotSaved, Halt, Answer, Even
<1>3. CASE ConfigLight \/ OffsetLight
  <2>1. batch # <<>> /\ Applies(us) /\ Moves(us) /\ path' = path
    BY <1>3 DEF ConfigLight, OffsetLight, Writable, Calibrating, AtWork, Answer
  <2>2. us \in Seq(Updating)
    BY <2>1, CommandUpdates
  <2> HIDE DEF us
  <2> QED BY <2>1, <2>2, AppliesEven, MovesSampling DEF Typed
<1>4. CASE ConfigShort \/ OffsetShort \/ OffsetCut
  <2>1. /\ batch # <<>> /\ Moves(us) /\ path = "light" /\ path' = path
        /\ live' = live \/ live' = Put(live, us) \/ live' = InForce(live, us)
    BY <1>4 DEF ConfigShort, OffsetShort, OffsetCut, Writable, Calibrating, AtWork, Answer
  <2>2. us \in Seq(Updating)
    BY <2>1, CommandUpdates
  <2> HIDE DEF us
  <2>3. Ph \notin KeysOf(us) => live'[Ph] = live[Ph]
    BY <2>1, <2>2, PutOther, InForceTyped DEF Typed, ConfigTyped
  <2> QED BY <2>1, <2>3, MovesSampling DEF Even
<1> QED BY <1>1, <1>2, <1>3, <1>4

LEMMA SwitchSampling == ASSUME Sampling, Typed, Queues, Switch PROVE Sampling'
<1> DEFINE us == Updates[Command]
<1>1. /\ batch # <<>> /\ Kind[Command] = "switch" /\ path' = path /\ session' = session
      /\ live' = live \/ live' = Put(live, us)
      /\ path = "heavy" =>
           \/ copies' = [current |-> Put(copies.current, us), last |-> Put(copies.current, us)]
           \/ copies' = [copies EXCEPT !.last = copies.current]
  BY DEF Switch, AtWork, Command, Answer, Keeps
<1>2. us \in Seq(Updating) /\ Ph \notin KeysOf(us)
  BY <1>1, CommandUpdates, OneKey, IntakeAssumption
<1> HIDE DEF us
<1>3. live'[Ph] = live[Ph]
  BY <1>1, <1>2, PutOther DEF Typed, ConfigTyped
<1>4. ASSUME path = "heavy", Even PROVE Even'
  <2>1. copies \in Copies /\ copies.current \in Settings
    BY <1>4 DEF Typed, ConfigTyped, Copies
  <2>2. Put(copies.current, us)[Ph] = copies.current[Ph]
    BY <1>2, <2>1, PutOther
  <2> QED BY <1>1, <1>3, <1>4, <2>1, <2>2 DEF Even, Copies
<1> QED BY <1>1, <1>3, <1>4, SameSampling DEF Even

LEMMA HeavySampling ==
  ASSUME Sampling, Typed, Queues,
         ConfigHeavy \/ ConfigHeavyFails \/ HaltHeavy \/ PassOver \/ OffsetHeavy \/ Prepare \/ LogsGet
         \/ HeavyShort
  PROVE  Sampling'
<1>1. CASE ConfigHeavyFails \/ Prepare \/ LogsGet
  <2>1. Keeps /\ session' = session /\ path' = path
    BY <1>1 DEF ConfigHeavyFails, Prepare, LogsGet, Answer
  <2> QED BY <2>1, KeepsEven, SameSampling DEF Typed
<1>2. CASE HaltHeavy \/ PassOver
  BY <1>2, SameSampling DEF HaltHeavy, PassOver, Even
<1>3. CASE HeavyShort
  <2>1. session' = session /\ live' = live /\ copies' = [current |-> live, last |-> live]
    BY <1>3 DEF HeavyShort
  <2> QED BY <2>1, SameSampling DEF Even
<1>4. CASE ConfigHeavy
  <2>1. PICK k \in 1..Len(Known(Command)) :
          Applies(SubSeq(Known(Command), 1, k)) /\ Moves(SubSeq(Known(Command), 1, k))
    BY <1>4 DEF ConfigHeavy
  <2> DEFINE us == SubSeq(Known(Command), 1, k)
  <2>2. batch # <<>> /\ path' = path
    BY <1>4 DEF ConfigHeavy, Answer
  <2>3. us \in Seq(Updating) /\ Applies(us) /\ Moves(us)
    BY <2>1, <2>2, CommandUpdates
  <2> HIDE DEF us
  <2> QED BY <2>2, <2>3, AppliesEven, MovesSampling DEF Typed
<1>5. CASE OffsetHeavy
  <2>1. batch # <<>> /\ Kind[Command] = "offset" /\ Moves(Updates[Command])
    BY <1>5 DEF OffsetHeavy, AtWork, Command
  <2>2. Ph \in KeysOf(Updates[Command])
    BY <2>1, OneKey
  <2> QED BY <2>1, <2>2, MovesSampling
<1> QED BY <1>1, <1>2, <1>3, <1>4, <1>5

LEMMA LoopSampling ==
  ASSUME Sampling, Sound, Typed,
         HandOver \/ Resubscribe \/ Drain \/ EndPass \/ NoSample \/ Sample \/ LastSample \/ Sync \/ EnterHalt
         \/ Halted \/ UNCHANGED vars \/ \E m \in Messages : Deliver(m)
  PROVE  Sampling'
<1>1. CASE Resubscribe \/ Drain \/ NoSample \/ Sync \/ EnterHalt \/ Halted \/ UNCHANGED vars
           \/ \E m \in Messages : Deliver(m)
  BY <1>1, SameSampling DEF Resubscribe, Drain, NoSample, Sync, EnterHalt, Halted, Deliver, Even
<1>2. CASE HandOver
  BY <1>2, SameSampling DEF HandOver, Even
<1>3. CASE EndPass
  <2>1. session' = session /\ path' = "light" /\ live' = IF path = "heavy" THEN copies.last ELSE live
    BY <1>3 DEF EndPass, Adopted
  <2> QED BY <2>1 DEF Sampling, Steady, Even
<1>4. CASE Sample
  <2>1. /\ session # Idle /\ Len(Sampled) < SampleCount /\ pc = "calibrate"
        /\ session' = [session EXCEPT !.samples = Sampled] /\ UNCHANGED <<path, live, copies>>
    BY <1>4 DEF Sample
  <2>2. path # "heavy" /\ session \in Sessions /\ live[Ph] \in Int
    BY <2>1 DEF Sound, Shaped, Sampling, Typed, ConfigTyped, Settings
  <2>3. /\ Sampled \in Seq(Int) /\ session' \in Sessions
        /\ session'.samples = Sampled /\ session'.moved = session.moved
    <3>1. Sampled \in Seq(Int)
      BY <2>2 DEF Sampled, Sessions
    <3>2. session' = [session EXCEPT !.samples = Sampled]
          /\ session \in [id : Ids, samples : Seq(Int), moved : BOOLEAN]
      BY <2>1, <2>2 DEF Sessions
    <3> HIDE DEF Sampled
    <3> QED BY <3>1, <3>2 DEF Sessions
  <2>4. session.moved \/ \A i \in 1..Len(Sampled) : Sampled[i] = live[Ph]
    <3>1. session.moved \/ \A i \in 1..Len(session.samples) : session.samples[i] = live[Ph]
      BY <2>1 DEF Sampling, Steady
    <3> QED BY <2>2, <3>1 DEF Sampled, Sessions
  <2>5. Even'
    BY <2>1, <2>2 DEF Even
  <2> QED BY <2>1, <2>3, <2>4, <2>5 DEF Sampling, Steady
<1>5. CASE LastSample
  BY <1>5 DEF LastSample, Sampling
<1> QED BY <1>1, <1>2, <1>3, <1>4, <1>5

LEMMA RestartSampling == (Reset \/ Reboot \/ ConfigFatal \/ ConfigHeavyFatal) => Sampling'
BY DEF Reset, Reboot, ConfigFatal, ConfigHeavyFatal, Boot, Sampling

-----------------------------------------------------------------------------
(* All of it together.                                                     *)
Whole == Sound /\ Queues /\ Typed /\ Memory /\ Owing /\ Sampling /\ base \in Values

LEMMA WholeInit == Init => Whole
<1> SUFFICES ASSUME Init PROVE Whole
  OBVIOUS
<1>1. Sound /\ Queues
  BY SoundInit DEF Init, Queues
<1>2. Typed
  <2>1. live = [k \in Keys |-> Factory] /\ disk = live /\ reported = live /\ copies = NoCopies
        /\ path = "light" /\ pc = "intake" /\ before.reboot = FALSE /\ {reboot, prepared, halting} = {FALSE}
        /\ token \in BOOLEAN
    BY DEF Init
  <2>2. live \in Settings
    BY <2>1, IntakeAssumption DEF Settings, Values
  <2> QED BY <2>1, <2>2 DEF Typed, ConfigTyped, FlashTyped, TurnTyped
<1>3. Memory
  <2>1. ids = <<>> /\ before.ids = 0 /\ handled = <<>> /\ answered = <<>> /\ again = {}
    BY DEF Init
  <2>2. ids \in Seq(Ids) /\ handled \in Seq(Ids) /\ Injective(handled)
    BY <2>1 DEF Injective
  <2>3. DOMAIN answered = {} /\ ToSet(handled) = {} /\ Len(handled) = 0 /\ Len(ids) = 0
    BY <2>1 DEF ToSet
  <2> QED BY <2>1, <2>2, <2>3, IntakeAssumption DEF Memory, Listed, Lasting, ExecutedOnce
<1>4. Owing /\ Sampling /\ base \in Values
  BY IntakeAssumption DEF Init, Owing, Answered, Sampling, Values
<1> QED BY <1>1, <1>2, <1>3, <1>4 DEF Whole

LEMMA WholeInductive == Whole /\ [Next]_vars => Whole'
<1> SUFFICES ASSUME Whole, [Next]_vars PROVE Whole'
  OBVIOUS
<1> USE DEF Whole
<1>1. Sound' /\ Queues' /\ Memory' /\ Owing'
  BY SoundInductive, QueuesInductive, MemoryInductive, OwingInductive
<1>2. session # Idle => session.samples \in Seq(Int)
  BY DEF Sampling, Sessions
<1>3. Typed'
  BY <1>2, LightTyped, SwitchTyped, HeavyTyped, HeavyShortTyped, LoopTyped, RestartTyped
     DEF Next, Light, Heavy, Loop
<1>4. Sampling'
  BY ControlsSampling, LightSampling, SwitchSampling, HeavySampling, LoopSampling, RestartSampling
     DEF Next, Light, Heavy, Loop
<1>5. base' \in Values
  BY <1>3, BaseFollows, DurableIsKey, IntakeAssumption DEF Typed, ConfigTyped, Settings
<1> QED BY <1>1, <1>3, <1>4, <1>5

LEMMA AlwaysWhole == Spec => []Whole
BY WholeInit, WholeInductive, PTL DEF Spec

(* Every command of a batch has its result when the pass is over, those    *)
(* handed over included, as long as no command of it changes the base      *)
(* topic; and no id is executed again while fewer than Limit others were   *)
(* answered since the pass that answered it first: in either module and    *)
(* between them, with failing writes, shortages of memory and resets at    *)
(* any place (command_intake.py, command_handlers.py, and the              *)
(* handled_message_ids of steady_state.py).                                *)
THEOREM AnsweredOnce == Spec => []AnswersSound
<1>1. Whole => AnswersSound
  <2> SUFFICES ASSUME Whole PROVE AnswersSound
    OBVIOUS
  <2>1. Sound /\ Queues /\ Typed /\ Memory /\ Owing /\ Sampling /\ base \in Values
    BY DEF Whole
  <2>2. owed \in 0..MaxDeliveries /\ Answered
    <3>1. Len(batch) \in Nat /\ Len(queue) \in Nat /\ MaxDeliveries \in Nat
      BY <2>1, IntakeAssumption DEF Queues
    <3> QED BY <2>1, <3>1 DEF Owing, Answered
  <2>3. copies = NoCopies \/ {copies.current, copies.last} \subseteq Settings
    BY <2>1 DEF Typed, ConfigTyped, Copies
  <2>4. (copies = NoCopies) <=> (path = "light")
    BY <2>1, IntakeAssumption DEF Typed, ConfigTyped, Copies
  <2>5. session = Idle \/ (session.samples \in Seq(Int) /\ Len(session.samples) < SampleCount)
    BY <2>1 DEF Sampling, Sessions
  <2>6. /\ {queue, batch} \subseteq Seq(Messages) /\ before.ids \in 0..Len(ids)
        /\ Len(handled) <= Limit /\ ExecutedOnce
    BY <2>1 DEF Queues, Memory, Listed
  <2> QED BY <2>1, <2>2, <2>3, <2>4, <2>5, <2>6
          DEF AnswersSound, TypeOK, Typed, ConfigTyped, FlashTyped, TurnTyped
<1> QED BY <1>1, AlwaysWhole, PTL

(* A soil session that saves an offset, and during which nobody set        *)
(* another one, leaves the sensor reading the reference, whatever passes   *)
(* and modules it went through (process_soil_calibration_session).         *)
THEOREM CalibrationsExact == Spec => CalibrationExact
<1>1. ASSUME Whole, [Next]_vars, pc = "calibrate", pc' = "sync", session # Idle, session' = Idle,
             ~session.moved, live' # live
      PROVE  live'[Ph] = Reference
  <2>1. Sound /\ Queues /\ Typed /\ Sampling
    BY <1>1 DEF Whole
  <2>2. LastSample
    <3>1. ~Reset /\ ~Reboot /\ ~\E m \in Messages : Deliver(m)
      BY <1>1 DEF Reset, Reboot, Boot, Deliver
    <3>2. ~Reject /\ ~RestartOnly
      BY <1>1 DEF Reject, RestartOnly, AtWork
    <3>3. ~Light
      BY <1>1 DEF Light, Switch, SessionLight, ConfigLight, ConfigNotSaved, ConfigShort, ConfigFatal, Halt,
                  OffsetLight, OffsetShort, OffsetCut, HandOver, Controls, Writable, Calibrating, AtWork
    <3>4. ~Heavy
      BY <1>1 DEF Heavy, SessionHeavy, ConfigHeavy, ConfigHeavyFails, ConfigHeavyFatal, HaltHeavy, PassOver,
                  OffsetHeavy, Prepare, LogsGet, HeavyShort, Controls, Saving, AtWork
    <3>5. ~Resubscribe /\ ~Drain /\ ~EndPass /\ ~Sync /\ ~EnterHalt /\ ~Halted /\ ~NoSample /\ ~Sample
      BY <1>1 DEF Resubscribe, Drain, EndPass, Sync, EnterHalt, Halted, NoSample, Sample
    <3> QED BY <1>1, <3>1, <3>2, <3>3, <3>4, <3>5 DEF Next, Loop
  <2>3. session \in Sessions /\ live \in Settings /\ live[Ph] \in Int /\ path # "heavy"
        /\ \A i \in 1..Len(session.samples) : session.samples[i] = live[Ph]
    BY <1>1, <2>1 DEF Sampling, Steady, Sessions, Sound, Shaped, Typed, ConfigTyped, Settings
  <2>4. /\ Sampled \in Seq(Int) /\ Len(Sampled) \in Nat \ {0}
        /\ \A i \in 1..Len(Sampled) : Sampled[i] = live[Ph]
    BY <2>3 DEF Sampled, Sessions
  <2>5. Sum(Sampled) = Len(Sampled) * live[Ph]
    BY <2>3, <2>4, SumTyped
  <2>6. Sum(Sampled) \div Len(Sampled) = live[Ph]
    BY <2>3, <2>4, <2>5, DivisionOfMultiple
  <2>7. Computed(Sampled) = Reference
    BY <2>3, <2>6, IntakeAssumption DEF Computed
  <2> DEFINE us == <<<<Ph, Computed(Sampled)>>>>
  <2>8. live' = Put(live, us)
    BY <1>1, <2>2 DEF LastSample
  <2>9. KeysOf(us) = {Ph} /\ us[1][2] = Computed(Sampled) /\ \A i \in DOMAIN us : i = 1
    BY DEF KeysOf
  <2>10. us \in Seq(Updating)
    BY <2>1, <2>2, <2>3, SampledTyped DEF Sessions
  <2> HIDE DEF us
  <2>11. LastOf(us, Ph) = Computed(Sampled)
    BY <2>9, <2>10, LastOfOne
  <2> QED BY <2>3, <2>7, <2>8, <2>9, <2>10, <2>11, PutTyped, IntakeAssumption
<1> QED BY <1>1, AlwaysWhole, PTL DEF Spec, CalibrationExact

=============================================================================
